---- MODULE Spec2Model ----
(***************************************************************************)
(* A model of the ai-terminal backend (src/ai-terminal/src-tauri/src):     *)
(* the two TTL + capacity bounded caches (cache.rs, harm.rs), the static   *)
(* dangerous-command matcher (safeguard.rs) and the pseudo-terminal        *)
(* session with its output pump thread (pty.rs, lib.rs).                   *)
(*                                                                         *)
(* The three components share no state.  Each has its own next-state       *)
(* relation and specification (SpecCache, SpecGuard, SpecPty) over the     *)
(* one application state AppState that Init constructs.                    *)
(***************************************************************************)
EXTENDS Integers, Sequences, FiniteSets, TLC

VARIABLES
    now,          \* the monotonic clock read by Instant::now(), in seconds
    focus,        \* the cache object a run exercises: "cache" or "harm_cache"
    cache,        \* AppState.cache       : SuggestionCache.entries
    harm_cache,   \* AppState.harm_cache  : HarmCache.entries
    cache_op,     \* the last cache call and what it did (history)
    cache_hist,   \* the set calls since the cache was constructed or cleared (history)
    guard_call,   \* the last call of check_command_safeguard and its result (history)
    pty_manager,  \* AppState.pty_manager: None, or Some(session) with its cwd
    pty_lock,     \* the holder of the pty_manager mutex
    read_buffer,  \* PtyManager.read_buffer: the shared output buffer, a byte sequence
    buf_lock,     \* the holder of the read_buffer mutex
    pc,           \* where each foreground caller is in its call
    output,       \* the output a read_from_pty call is about to return, per caller
    pump_pc,      \* where the pump thread is: "none" before it is started
    local_buffer, \* the bytes the pump's last read returned and has yet to append
    pty_stream,   \* the bytes the shell has emitted and the pump has yet to read
    appended,     \* all bytes the pump has appended, in order (history)
    reads,        \* the byte strings successive reads have taken (history)
    pty_count,    \* shells spawned, pump threads started, sessions stored (history)
    config,       \* AppState.config: the AppConfig in effect
    req,          \* the requests to the AI-backed handlers, per request slot
    command_history, \* AppState.command_history
    hist_lock,    \* the holder of the command_history mutex
    added,        \* all commands add_to_history has pushed, in order (history)
    last_command,   \* AppState.last_command
    last_exit_code, \* AppState.last_exit_code
    last_output,    \* AppState.last_output
    last_output_poisoned, \* whether the last_output mutex is poisoned
    fep_call,     \* the locals of record_command_result and get_last_error, per request slot
    config_lock,  \* the holder of the config mutex
    config_file,  \* the configuration in the configuration file
    config_at_lock, \* the configuration when the config mutex was last taken for writing (history)
    lock_owner,   \* the holder of each mutex of AppState, in the specification of the locks
    task          \* the handler each task runs and the step it is at

cacheVars == <<now, focus, cache, harm_cache, cache_op, cache_hist>>

guardVars == <<guard_call>>

ptyVars == <<pty_manager, pty_lock, read_buffer, buf_lock, pc, output, pump_pc, local_buffer,
             pty_stream, appended, reads, pty_count>>

orchVars == <<config, req>>

histVars == <<command_history, hist_lock, added>>

fepVars == <<last_command, last_exit_code, last_output, last_output_poisoned, fep_call>>

cfgVars == <<config_lock, config_file, config_at_lock>>

lockVars == <<lock_owner, task>>

vars == <<now, focus, cache, harm_cache, cache_op, cache_hist, guard_call,
          pty_manager, pty_lock, read_buffer, buf_lock, pc, output, pump_pc, local_buffer,
          pty_stream, appended, reads, pty_count, config, req,
          command_history, hist_lock, added,
          last_command, last_exit_code, last_output, last_output_poisoned, fep_call,
          config_lock, config_file, config_at_lock, lock_owner, task>>

\* Option<T>
None == <<>>
Some(x) == <<x>>

(***************************************************************************)
(* Bounded caches: cache.rs (SuggestionCache) and harm.rs (HarmCache)      *)
(***************************************************************************)

CACHE_TTL_SECS == 300
HARM_CACHE_TTL_SECS == 3600

\* The capacity of both caches in the model.  It stands for MAX_CACHE_SIZE
\* (cache.rs:7) and MAX_HARM_CACHE_SIZE (harm.rs:11), both 100, scaled down so
\* that a full cache and an insertion into it are reached.
Capacity == 2
\* The clock advances in steps of TTL / TicksPerTTL seconds, until the first
\* entry's age is the TTL.
TicksPerTTL == 2

MAX_CACHE_SIZE == Capacity
MAX_HARM_CACHE_SIZE == Capacity

CacheNames == {"cache", "harm_cache"}
TtlOf(c) == IF c = "cache" THEN CACHE_TTL_SECS ELSE HARM_CACHE_TTL_SECS
TickOf(c) == TtlOf(c) \div TicksPerTTL
MaxTime(c) == TicksPerTTL * TickOf(c)

\* The inputs: one key more than the capacity, two values per cache.
Keys == 1 .. (Capacity + 1)
Suggestions ==
    { [completion |-> "git checkout", explanation |-> None],
      [completion |-> "git cherry-pick", explanation |-> Some("pick a commit")] }
HarmResult_default == [is_harmful |-> FALSE, reason |-> "", severity |-> "low"]
HarmResults ==
    { HarmResult_default,
      [is_harmful |-> TRUE, reason |-> "Deletes entire filesystem", severity |-> "critical"] }
ValuesOf(c) == IF c = "cache" THEN Suggestions ELSE HarmResults

\* HashMap helpers
EmptyMap == [k \in {} |-> None]
MapRemove(m, k) == [x \in DOMAIN m \ {k} |-> m[x]]
MapInsert(m, k, e) == [x \in DOMAIN m \cup {k} |-> IF x = k THEN e ELSE m[x]]
MapRestrict(m, keep) == [x \in keep |-> m[x]]

\* format!("{:x}", md5::compute(command.as_bytes())): the digest of a command,
\* one digest per command of the model (no two model commands collide).
Md5Hex(command) == <<"md5", command>>

\* The keys min_by_key may return: the first minimum in the HashMap's iteration
\* order, which is any key whose created_at is the smallest.
OldestKeys(entries) ==
    { k \in DOMAIN entries :
        \A j \in DOMAIN entries : entries[k].created_at <= entries[j].created_at }

\* ---- SuggestionCache ----

SuggestionCache_get_Stale(entries, input, t) ==
    IF input \in DOMAIN entries /\ t - entries[input].created_at <= CACHE_TTL_SECS
    THEN Some(entries[input].suggestion)
    ELSE None

SuggestionCache_get(entries, input, t) ==
    IF input \in DOMAIN entries /\ t - entries[input].created_at < CACHE_TTL_SECS
    THEN Some(entries[input].suggestion)
    ELSE None

SuggestionCache_evict_oldest_Newest(entries) ==
    IF DOMAIN entries = {} THEN {entries}
    ELSE { MapRemove(entries, k) :
             k \in { k \in DOMAIN entries :
                       \A j \in DOMAIN entries :
                           entries[k].created_at >= entries[j].created_at } }

\* The maps evict_oldest may leave (one per key it may pick).
SuggestionCache_evict_oldest(entries) ==
    IF DOMAIN entries = {} THEN {entries}
    ELSE { MapRemove(entries, k) : k \in OldestKeys(entries) }

SuggestionCache_evict_expired(entries, t) ==
    MapRestrict(entries,
                { k \in DOMAIN entries : t - entries[k].created_at < CACHE_TTL_SECS })

\* After the capacity check and evict_oldest: the maps the sweep may start from.
SuggestionCache_set_evicted(entries) ==
    IF Cardinality(DOMAIN entries) >= MAX_CACHE_SIZE
    THEN SuggestionCache_evict_oldest(entries)
    ELSE {entries}

SuggestionCache_insert_KeepOld(entries, input, suggestion, t) ==
    IF input \in DOMAIN entries THEN entries
    ELSE MapInsert(entries, input, [suggestion |-> suggestion, created_at |-> t])

\* self.entries.insert(input, CacheEntry { suggestion, created_at: Instant::now() })
SuggestionCache_insert(entries, input, suggestion, t) ==
    MapInsert(entries, input, [suggestion |-> suggestion, created_at |-> t])

\* ---- HarmCache ----

HarmCache_get(entries, command, t) ==
    LET hash == Md5Hex(command)
    IN  IF hash \in DOMAIN entries /\ t - entries[hash].created_at < HARM_CACHE_TTL_SECS
        THEN Some(entries[hash].result)
        ELSE None

HarmCache_evict_oldest(entries) ==
    IF DOMAIN entries = {} THEN {entries}
    ELSE { MapRemove(entries, k) : k \in OldestKeys(entries) }

HarmCache_evict_expired(entries, t) ==
    MapRestrict(entries,
                { k \in DOMAIN entries : t - entries[k].created_at < HARM_CACHE_TTL_SECS })

HarmCache_set_evicted_Late(entries) ==
    IF Cardinality(DOMAIN entries) > MAX_HARM_CACHE_SIZE
    THEN HarmCache_evict_oldest(entries)
    ELSE {entries}

HarmCache_set_evicted(entries) ==
    IF Cardinality(DOMAIN entries) >= MAX_HARM_CACHE_SIZE
    THEN HarmCache_evict_oldest(entries)
    ELSE {entries}

HarmCache_insert(entries, command, result, t) ==
    MapInsert(entries, Md5Hex(command), [result |-> result, created_at |-> t])

\* ---- the two caches behind one interface ----

EntriesOf(c) == IF c = "cache" THEN cache ELSE harm_cache
KeyOf(c, k) == IF c = "cache" THEN k ELSE Md5Hex(k)
ValueIn(c, e) == IF c = "cache" THEN e.suggestion ELSE e.result
Cache_get(c, entries, k, t) ==
    IF c = "cache" THEN SuggestionCache_get(entries, k, t) ELSE HarmCache_get(entries, k, t)
Cache_set_evicted(c, entries) ==
    IF c = "cache" THEN SuggestionCache_set_evicted(entries) ELSE HarmCache_set_evicted(entries)
Cache_evict_expired(c, entries, t) ==
    IF c = "cache" THEN SuggestionCache_evict_expired(entries, t)
    ELSE HarmCache_evict_expired(entries, t)
Cache_insert(c, entries, k, v, t) ==
    IF c = "cache" THEN SuggestionCache_insert(entries, k, v, t)
    ELSE HarmCache_insert(entries, k, v, t)

\* cache_op: the call that has just returned (kind, key, what a get returned).
NoOp == [kind |-> "none", key |-> 0, ret |-> None]
\* cache_hist: n counts the set calls since the cache was constructed or cleared
\* while they insert pairwise distinct keys, at most Capacity + 1 of them; first is
\* the creation timestamp of the first of them.  The distinct keys are taken in
\* the order 1, 2, ... (the caches treat all keys alike, so any other choice of
\* distinct keys is a renaming of this one); values and times are arbitrary.  Any
\* other set ends the count (Uncounted).  last is the most recent set call since
\* then: its key, value and timestamp, and whether it found the map at capacity
\* with its key stored (replaced_in_full).
NoHist == [n |-> 0, first |-> 0, last |-> None]
Uncounted == [n |-> -1, first |-> 0]

CacheInit ==
    /\ now = 0
    /\ focus \in CacheNames
    /\ cache = EmptyMap
    /\ harm_cache = EmptyMap
    /\ cache_op = NoOp
    /\ cache_hist = NoHist

\* Time passes between two calls (cache_op describes only a call that has just
\* returned).
AdvanceTime ==
    /\ now + TickOf(focus) <= MaxTime(focus)
    /\ now' = now + TickOf(focus)
    /\ cache_op' = NoOp
    /\ UNCHANGED <<focus, cache, harm_cache, cache_hist>>

\* get(key): reads the clock once (created_at.elapsed()); changes nothing.
CacheGet(k) ==
    /\ cache_op' = [kind |-> "get", key |-> k,
                    ret |-> Cache_get(focus, EntriesOf(focus), k, now)]
    /\ UNCHANGED <<now, focus, cache, harm_cache, cache_hist>>

\* set(key, value): capacity check and evict_oldest, then evict_expired at one
\* reading t1 of the clock, then insert with a second reading t2 >= t1.
CacheSet(k, v) ==
    \E e1 \in Cache_set_evicted(focus, EntriesOf(focus)), d \in 0 .. 1 :
        LET t1 == now
            t2 == now + d * TickOf(focus)
            e2 == Cache_evict_expired(focus, e1, t1)
            e3 == Cache_insert(focus, e2, k, v, t2)
            counted == cache_hist.n >= 0 /\ cache_hist.n <= Capacity
                       /\ k = cache_hist.n + 1
            h == IF counted
                 THEN [n |-> cache_hist.n + 1,
                       first |-> IF cache_hist.n = 0 THEN t2 ELSE cache_hist.first]
                 ELSE Uncounted
        IN  /\ t2 <= MaxTime(focus)
            /\ now' = t2
            /\ cache' = IF focus = "cache" THEN e3 ELSE cache
            /\ harm_cache' = IF focus = "harm_cache" THEN e3 ELSE harm_cache
            /\ cache_op' = [kind |-> "set", key |-> k, ret |-> None]
            /\ cache_hist' =
                   [n |-> h.n, first |-> h.first,
                    last |-> Some([key |-> k, value |-> v, at |-> t2,
                                   replaced_in_full |->
                                       /\ KeyOf(focus, k) \in DOMAIN EntriesOf(focus)
                                       /\ Cardinality(DOMAIN EntriesOf(focus)) >= Capacity])]
            /\ UNCHANGED focus

\* clear(): removes all entries.
CacheClear ==
    /\ cache' = IF focus = "cache" THEN EmptyMap ELSE cache
    /\ harm_cache' = IF focus = "harm_cache" THEN EmptyMap ELSE harm_cache
    /\ cache_op' = [kind |-> "clear", key |-> 0, ret |-> None]
    /\ cache_hist' = NoHist
    /\ UNCHANGED <<now, focus>>

CacheNext ==
    \/ AdvanceTime
    \/ \E k \in Keys : CacheGet(k)
    \/ \E k \in Keys, v \in ValuesOf(focus) : CacheSet(k, v)
    \/ CacheClear

(***************************************************************************)
(* Claims about the bounded caches (checked under SpecCache)               *)
(***************************************************************************)

Stored(k) == KeyOf(focus, k) \in DOMAIN EntriesOf(focus)
EntryOf(k) == EntriesOf(focus)[KeyOf(focus, k)]
LastSet == cache_hist.last[1]

\* C1: for each cache and any prior state (a full cache, a cache that already
\* holds the key), set(key, value) followed by get(key), with no set or clear in
\* between and less than the TTL elapsed since the set, returns exactly value.
C1_SetThenGet ==
    ( /\ cache_op.kind = "get"
      /\ cache_hist.last # None
      /\ LastSet.key = cache_op.key
      /\ now - LastSet.at < TtlOf(focus) )
    => cache_op.ret = Some(LastSet.value)

\* A get that follows, some time later, a set that overwrote its key in a full
\* harm-verdict cache.
C1_Witness ==
    /\ focus = "harm_cache"
    /\ cache_op.kind = "get"
    /\ cache_hist.last # None
    /\ LastSet.key = cache_op.key
    /\ LastSet.replaced_in_full
    /\ now > LastSet.at
    /\ now - LastSet.at < TtlOf(focus)
    /\ cache_op.ret = Some(LastSet.value)

\* C2: get(key) returns absent whenever the stored entry's age is at least the
\* TTL (300 s for completions, 3600 s for harm verdicts), even though the entry is
\* still stored; it returns a value only for a stored entry younger than the TTL,
\* and then that entry's value.
C2_NoStaleGet ==
    cache_op.kind = "get" =>
        LET ttl == IF focus = "cache" THEN 300 ELSE 3600
        IN  /\ (Stored(cache_op.key) /\ now - EntryOf(cache_op.key).created_at >= ttl)
                  => cache_op.ret = None
            /\ cache_op.ret # None
                  => /\ Stored(cache_op.key)
                     /\ now - EntryOf(cache_op.key).created_at < ttl
                     /\ cache_op.ret = Some(ValueIn(focus, EntryOf(cache_op.key)))

\* A get of a completion that is still stored, at the moment its age is the TTL.
C2_Witness ==
    /\ focus = "cache"
    /\ cache_op.kind = "get"
    /\ Stored(cache_op.key)
    /\ now - EntryOf(cache_op.key).created_at = CACHE_TTL_SECS
    /\ cache_op.ret = None

\* C3: in every state reached by set, get and clear calls with time passing
\* between them, each cache holds at most its capacity of entries, also after a
\* set that overwrites a stored key.
C3_SizeBounded ==
    /\ Cardinality(DOMAIN cache) <= MAX_CACHE_SIZE
    /\ Cardinality(DOMAIN harm_cache) <= MAX_HARM_CACHE_SIZE

\* A set that found the harm-verdict cache full and its key stored, and left it
\* full.
C3_Witness ==
    /\ focus = "harm_cache"
    /\ cache_op.kind = "set"
    /\ LastSet.replaced_in_full
    /\ Cardinality(DOMAIN harm_cache) = MAX_HARM_CACHE_SIZE

\* The step is the set call that completes the insertion of Capacity + 1 distinct
\* keys into an empty cache.
LastOfDistinctSets == cache_op'.kind = "set" /\ cache_hist'.n = Capacity + 1

\* What that set call does (before: the map it finds, after: the map it leaves,
\* now: the clock when it sweeps).
EvictsOldestOnly ==
    LET before == EntriesOf(focus)
        after  == EntriesOf(focus)'
        Fresh(y) == now - before[y].created_at < TtlOf(focus)
    IN  /\ Cardinality(DOMAIN before) >= Capacity =>
              \E x \in DOMAIN before :
                  /\ \A y \in DOMAIN before : before[x].created_at <= before[y].created_at
                  /\ x \notin DOMAIN after
                  /\ \A y \in DOMAIN before \ {x} :
                         Fresh(y) => (y \in DOMAIN after /\ after[y] = before[y])
        /\ Cardinality(DOMAIN before) < Capacity =>
              \A y \in DOMAIN before :
                  Fresh(y) => (y \in DOMAIN after /\ after[y] = before[y])

\* C4 as claimed: inserting capacity + 1 distinct keys into an empty cache leaves
\* exactly capacity entries; the one entry the last set evicts is the entry with
\* the earliest creation timestamp among those present, and every other entry
\* still within its TTL survives the set.
C4_Original ==
    [][LastOfDistinctSets =>
          /\ Cardinality(DOMAIN EntriesOf(focus)') = Capacity
          /\ EvictsOldestOnly]_vars

\* C4 as amended: the insertion leaves at most capacity entries, and exactly
\* capacity entries when the first entry's age is still below the TTL at the last
\* set; when the last set finds the cache full, the one entry evict_oldest removes
\* has the earliest creation timestamp among those present, and every other entry
\* still within its TTL survives the set.
C4_EvictsOldest ==
    [][LastOfDistinctSets =>
          /\ Cardinality(DOMAIN EntriesOf(focus)') <= Capacity
          /\ (now - cache_hist.first < TtlOf(focus))
                 => Cardinality(DOMAIN EntriesOf(focus)') = Capacity
          /\ EvictsOldestOnly]_vars

\* The last of Capacity + 1 distinct insertions found the completion cache full
\* with no entry expired, and evicted the first entry, older than all the others.
C4_Witness ==
    /\ focus = "cache"
    /\ cache_op.kind = "set"
    /\ cache_hist.n = Capacity + 1
    /\ now - cache_hist.first < CACHE_TTL_SECS
    /\ Cardinality(DOMAIN cache) = Capacity
    /\ \A y \in DOMAIN cache \ {cache_op.key} : cache[y].created_at > cache_hist.first

(***************************************************************************)
(* The dangerous-command matcher: safeguard.rs                             *)
(***************************************************************************)

\* A command or a pattern is the sequence of its characters.
\* (pattern, description, severity), in declared order.
DANGEROUS_PATTERNS ==
    << [pattern |-> <<"r", "m", " ", "-", "r", "f", " ", "/">>,
       description |-> "Recursive deletion of root filesystem", severity |-> "critical"],
       [pattern |-> <<"r", "m", " ", "-", "r", "f", " ", "/", "*">>,
       description |-> "Recursive deletion of root filesystem", severity |-> "critical"],
       [pattern |-> <<"r", "m", " ", "-", "r", "f", " ", "~">>,
       description |-> "Recursive deletion of home directory", severity |-> "critical"],
       [pattern |-> <<"r", "m", " ", "-", "r", "f", " ", ".">>,
       description |-> "Recursive deletion of current directory", severity |-> "high"],
       [pattern |-> <<"r", "m", " ", "-", "r", " ">>,
       description |-> "Recursive file deletion", severity |-> "medium"],
       [pattern |-> <<"r", "m", " ", "-", "f", " ">>,
       description |-> "Force file deletion", severity |-> "medium"],
       [pattern |-> <<":", "(", ")", "{", ":", "|", ":", "&", "}", ";", ":">>,
       description |-> "Fork bomb", severity |-> "critical"],
       [pattern |-> <<"d", "d", " ", "i", "f", "=", "/", "d", "e", "v", "/", "z", "e", "r", "o">>,
       description |-> "Disk write operation", severity |-> "high"],
       [pattern |-> <<"d", "d", " ", "i", "f", "=", "/", "d", "e", "v", "/", "r", "a", "n", "d", "o", "m">>,
       description |-> "Disk write operation", severity |-> "high"],
       [pattern |-> <<"m", "k", "f", "s", ".">>,
       description |-> "Filesystem formatting", severity |-> "critical"],
       [pattern |-> <<"f", "d", "i", "s", "k", " ">>,
       description |-> "Disk partitioning", severity |-> "critical"],
       [pattern |-> <<"p", "a", "r", "t", "e", "d", " ">>,
       description |-> "Disk partitioning", severity |-> "high"],
       [pattern |-> <<">", " ", "/", "d", "e", "v", "/", "s", "d">>,
       description |-> "Direct disk write", severity |-> "critical"],
       [pattern |-> <<"c", "h", "m", "o", "d", " ", "7", "7", "7">>,
       description |-> "World-writable permissions", severity |-> "medium"],
       [pattern |-> <<"c", "h", "m", "o", "d", " ", "-", "R", " ", "7", "7", "7">>,
       description |-> "Recursive world-writable permissions", severity |-> "high"],
       [pattern |-> <<"c", "h", "o", "w", "n", " ", "-", "R">>,
       description |-> "Recursive ownership change", severity |-> "medium"],
       [pattern |-> <<"s", "h", "u", "t", "d", "o", "w", "n">>,
       description |-> "System shutdown", severity |-> "high"],
       [pattern |-> <<"r", "e", "b", "o", "o", "t">>,
       description |-> "System reboot", severity |-> "high"],
       [pattern |-> <<"i", "n", "i", "t", " ", "0">>,
       description |-> "System shutdown", severity |-> "high"],
       [pattern |-> <<"i", "n", "i", "t", " ", "6">>,
       description |-> "System reboot", severity |-> "high"],
       [pattern |-> <<"h", "a", "l", "t">>,
       description |-> "System halt", severity |-> "high"],
       [pattern |-> <<"p", "o", "w", "e", "r", "o", "f", "f">>,
       description |-> "System poweroff", severity |-> "high"],
       [pattern |-> <<"c", "u", "r", "l", " ", "|", " ", "s", "h">>,
       description |-> "Remote code execution", severity |-> "critical"],
       [pattern |-> <<"c", "u", "r", "l", " ", "|", " ", "b", "a", "s", "h">>,
       description |-> "Remote code execution", severity |-> "critical"],
       [pattern |-> <<"w", "g", "e", "t", " ", "|", " ", "s", "h">>,
       description |-> "Remote code execution", severity |-> "critical"],
       [pattern |-> <<"w", "g", "e", "t", " ", "|", " ", "b", "a", "s", "h">>,
       description |-> "Remote code execution", severity |-> "critical"],
       [pattern |-> <<"|", " ", "s", "h">>,
       description |-> "Piped shell execution", severity |-> "high"],
       [pattern |-> <<"|", " ", "b", "a", "s", "h">>,
       description |-> "Piped shell execution", severity |-> "high"],
       [pattern |-> <<"e", "v", "a", "l", " ">>,
       description |-> "Dynamic code execution", severity |-> "medium"],
       [pattern |-> <<">", " ", "/", "e", "t", "c", "/", "p", "a", "s", "s", "w", "d">>,
       description |-> "Passwd file modification", severity |-> "critical"],
       [pattern |-> <<">", " ", "/", "e", "t", "c", "/", "s", "h", "a", "d", "o", "w">>,
       description |-> "Shadow file modification", severity |-> "critical"],
       [pattern |-> <<"m", "v", " ", "/", "*", " ">>,
       description |-> "Moving root filesystem", severity |-> "critical"],
       [pattern |-> <<"c", "p", " ", "/", "d", "e", "v", "/", "n", "u", "l", "l", " ">>,
       description |-> "Overwriting with null", severity |-> "high"],
       [pattern |-> <<":", "(", ")", "{", " ", ":", "|", ":", "&", " ", "}", ";", ":">>,
       description |-> "Fork bomb variant", severity |-> "critical"],
       [pattern |-> <<"h", "i", "s", "t", "o", "r", "y", " ", "-", "c">>,
       description |-> "Command history deletion", severity |-> "medium"],
       [pattern |-> <<"s", "h", "r", "e", "d", " ">>,
       description |-> "Secure file deletion", severity |-> "medium"],
       [pattern |-> <<"w", "i", "p", "e", "f", "s", " ">>,
       description |-> "Filesystem signature wiping", severity |-> "high"] >>

\* The rules a Windows build declares after them (cfg(target_os = "windows")).
WINDOWS_DANGEROUS_PATTERNS ==
    << [pattern |-> <<"d", "e", "l", " ", "/", "f", " ", "/", "s", " ", "/", "q", " ", "C", ":", "\\">>,
       description |-> "Recursive deletion of C drive", severity |-> "critical"],
       [pattern |-> <<"r", "d", " ", "/", "s", " ", "/", "q", " ", "C", ":", "\\">>,
       description |-> "Recursive directory deletion", severity |-> "critical"],
       [pattern |-> <<"f", "o", "r", "m", "a", "t", " ", "C", ":">>,
       description |-> "Disk formatting", severity |-> "critical"],
       [pattern |-> <<"f", "o", "r", "m", "a", "t", " ", "D", ":">>,
       description |-> "Disk formatting", severity |-> "critical"],
       [pattern |-> <<"R", "e", "m", "o", "v", "e", "-", "I", "t", "e", "m", " ", "-", "R", "e", "c", "u", "r", "s", "e", " ", "-", "F", "o", "r", "c", "e", " ", "C", ":", "\\">>,
       description |-> "PowerShell recursive deletion", severity |-> "critical"],
       [pattern |-> <<"r", "m", " ", "-", "R", "e", "c", "u", "r", "s", "e", " ", "-", "F", "o", "r", "c", "e", " ", "C", ":", "\\">>,
       description |-> "PowerShell recursive deletion", severity |-> "critical"],
       [pattern |-> <<"S", "t", "o", "p", "-", "C", "o", "m", "p", "u", "t", "e", "r">>,
       description |-> "System shutdown", severity |-> "high"],
       [pattern |-> <<"R", "e", "s", "t", "a", "r", "t", "-", "C", "o", "m", "p", "u", "t", "e", "r">>,
       description |-> "System restart", severity |-> "high"],
       [pattern |-> <<"s", "h", "u", "t", "d", "o", "w", "n", " ", "/", "s">>,
       description |-> "System shutdown", severity |-> "high"],
       [pattern |-> <<"s", "h", "u", "t", "d", "o", "w", "n", " ", "/", "r">>,
       description |-> "System restart", severity |-> "high"],
       [pattern |-> <<"r", "e", "g", " ", "d", "e", "l", "e", "t", "e">>,
       description |-> "Registry deletion", severity |-> "high"],
       [pattern |-> <<"b", "c", "d", "e", "d", "i", "t">>,
       description |-> "Boot configuration edit", severity |-> "critical"] >>

SafeguardResult_default ==
    [is_dangerous |-> FALSE, matched_pattern |-> None, description |-> "", severity |-> "low"]

\* str::to_lowercase on the characters of the model (ASCII: only A-Z change).
UPPER_LETTERS == <<"A", "B", "C", "D", "E", "F", "G", "H", "I", "J", "K", "L", "M",
                   "N", "O", "P", "Q", "R", "S", "T", "U", "V", "W", "X", "Y", "Z">>
LOWER_LETTERS == <<"a", "b", "c", "d", "e", "f", "g", "h", "i", "j", "k", "l", "m",
                   "n", "o", "p", "q", "r", "s", "t", "u", "v", "w", "x", "y", "z">>
LetterIndex == 1 .. Len(UPPER_LETTERS)
LowerOf == [c \in {UPPER_LETTERS[i] : i \in LetterIndex} |->
               LOWER_LETTERS[CHOOSE i \in LetterIndex : UPPER_LETTERS[i] = c]]
UpperOf == [c \in {LOWER_LETTERS[i] : i \in LetterIndex} |->
               UPPER_LETTERS[CHOOSE i \in LetterIndex : LOWER_LETTERS[i] = c]]

to_lowercase_Identity(s) == s

to_lowercase(s) == [i \in 1 .. Len(s) |-> IF s[i] \in DOMAIN LowerOf THEN LowerOf[s[i]] ELSE s[i]]

\* str::contains: needle occurs in haystack as a contiguous substring.
contains(haystack, needle) ==
    \E i \in 0 .. (Len(haystack) - Len(needle)) :
        SubSeq(haystack, i + 1, i + Len(needle)) = needle

SafeguardMatch(rule) ==
    [is_dangerous |-> TRUE, matched_pattern |-> Some(rule.pattern),
     description |-> rule.description, severity |-> rule.severity]

RECURSIVE ScanRules_SkipsLast(_, _, _)
ScanRules_SkipsLast(rules, i, command_lower) ==
    IF i >= Len(rules) THEN None
    ELSE IF contains(command_lower, to_lowercase(rules[i].pattern))
         THEN Some(SafeguardMatch(rules[i]))
         ELSE ScanRules_SkipsLast(rules, i + 1, command_lower)

RECURSIVE ScanRules_LastMatch(_, _, _)
ScanRules_LastMatch(rules, i, command_lower) ==
    IF i > Len(rules) THEN None
    ELSE LET rest == ScanRules_LastMatch(rules, i + 1, command_lower)
         IN  IF rest # None THEN rest
             ELSE IF contains(command_lower, to_lowercase(rules[i].pattern))
                  THEN Some(SafeguardMatch(rules[i]))
                  ELSE None

\* for (pattern, description, severity) in rules { if command_lower.contains(
\* &pattern.to_lowercase()) { return ... } }: the result of the first rule, from
\* the i-th on, that matches; None when the loop falls through.
RECURSIVE ScanRules(_, _, _)
ScanRules(rules, i, command_lower) ==
    IF i > Len(rules) THEN None
    ELSE IF contains(command_lower, to_lowercase(rules[i].pattern))
         THEN Some(SafeguardMatch(rules[i]))
         ELSE ScanRules(rules, i + 1, command_lower)

check_command_safeguard_IgnoresEnabled(command, enabled, windows) ==
    LET unix == ScanRules(DANGEROUS_PATTERNS, 1, to_lowercase(command))
    IN  IF unix # None THEN unix[1] ELSE SafeguardResult_default

\* windows: the build target is Windows, so the second loop is compiled in.
check_command_safeguard(command, enabled, windows) ==
    IF ~enabled THEN SafeguardResult_default
    ELSE LET command_lower == to_lowercase(command)
             unix == ScanRules(DANGEROUS_PATTERNS, 1, command_lower)
         IN  IF unix # None THEN unix[1]
             ELSE LET win == IF windows
                             THEN ScanRules(WINDOWS_DANGEROUS_PATTERNS, 1, command_lower)
                             ELSE None
                  IN  IF win # None THEN win[1] ELSE SafeguardResult_default

\* get_dangerous_patterns: the declared rules of the build, the base list and
\* then the platform-specific list.
get_dangerous_patterns(windows) ==
    IF windows THEN DANGEROUS_PATTERNS \o WINDOWS_DANGEROUS_PATTERNS ELSE DANGEROUS_PATTERNS

\* ---- the commands checked ----

\* A command may repeat a harmless prefix up to MaxPad times before its body.
MaxPad == 1
PadPrefix == <<"s", "u", "d", "o", " ">>
Separator == <<" ", ";", " ">>
\* Commands no rule matches (tests/safeguard_tests.rs, safe and edge cases).
BenignCommands ==
    { <<>>,
      <<" ", " ", " ">>,
      <<"l", "s", " ", "-", "l", "a">>,
      <<"g", "i", "t", " ", "s", "t", "a", "t", "u", "s">>,
      <<"c", "u", "r", "l", " ", "h", "t", "t", "p", "s", ":", "/", "/", "a", "p", "i", ".", "e", "x", "a", "m", "p", "l", "e", ".", "c", "o", "m", "/", "d", "a", "t", "a">> }
\* Dangerous commands of tests/safeguard_tests.rs.
TestCommands ==
    { <<"/", "b", "i", "n", "/", "r", "m", " ", "-", "r", "f", " ", "/", "h", "o", "m", "e", "/", "u", "s", "e", "r">>,
      <<"c", "u", "r", "l", " ", "h", "t", "t", "p", ":", "/", "/", "e", "x", "a", "m", "p", "l", "e", ".", "c", "o", "m", "/", "s", "c", "r", "i", "p", "t", ".", "s", "h", " ", "|", " ", "b", "a", "s", "h">>,
      <<"R", "M", " ", "-", "R", "F", " ", "/">> }

ToUpper(s) == [i \in 1 .. Len(s) |-> IF s[i] \in DOMAIN UpperOf THEN UpperOf[s[i]] ELSE s[i]]
AllRules == DANGEROUS_PATTERNS \o WINDOWS_DANGEROUS_PATTERNS
AllPatterns == { AllRules[i].pattern : i \in 1 .. Len(AllRules) }
\* The bodies: the benign and the test commands, and every declared pattern as
\* declared and in upper case.
CommandBodies ==
    BenignCommands \cup TestCommands
    \cup AllPatterns \cup { ToUpper(p) : p \in AllPatterns }
RECURSIVE Repeat(_, _)
Repeat(s, n) == IF n = 0 THEN <<>> ELSE s \o Repeat(s, n - 1)
\* The commands: every body behind 0 .. MaxPad prefixes, and every two declared
\* patterns, one after the other.
Commands ==
    { Repeat(PadPrefix, n) \o b : n \in 0 .. MaxPad, b \in CommandBodies }
    \cup { p \o Separator \o q : p, q \in AllPatterns }

\* A call of check_command_safeguard: its arguments, the build target, and,
\* once it has returned, its result.
GuardCall(command, enabled, windows) ==
    [command |-> command, enabled |-> enabled, windows |-> windows,
     returned |-> FALSE, result |-> SafeguardResult_default]

NoCall == GuardCall(<<>>, FALSE, FALSE)

\* check_command_safeguard is a pure function: the arguments of the call are
\* drawn initially, and the one step of the call computes the result.
GuardInit ==
    \E command \in Commands, enabled \in BOOLEAN, windows \in BOOLEAN :
        guard_call = GuardCall(command, enabled, windows)

GuardIdle == guard_call = NoCall

CheckSafeguard ==
    /\ ~guard_call.returned
    /\ guard_call' = [guard_call EXCEPT
           !.returned = TRUE,
           !.result = check_command_safeguard(guard_call.command, guard_call.enabled,
                                              guard_call.windows)]

GuardNext == CheckSafeguard

\* ---- claims about the matcher ----

GuardReturned == guard_call.returned
GuardResult == guard_call.result
DeclaredRules == get_dangerous_patterns(guard_call.windows)

\* Rule i of the build matches the command of the call: the lower-cased command
\* contains the lower-cased pattern.
RuleMatches(i) ==
    contains(to_lowercase(guard_call.command), to_lowercase(DeclaredRules[i].pattern))
MatchingRules == { i \in 1 .. Len(DeclaredRules) : RuleMatches(i) }

\* Two characters that are the same letter or the same other character.
SameIgnoringCase(a, b) ==
    (IF a \in DOMAIN UpperOf THEN UpperOf[a] ELSE a) = (IF b \in DOMAIN UpperOf THEN UpperOf[b] ELSE b)

\* The command of the call contains the pattern of rule i in some letter-casing.
ContainsInAnyCasing(i) ==
    LET command == guard_call.command
        pattern == DeclaredRules[i].pattern
    IN  \E at \in 0 .. (Len(command) - Len(pattern)) :
            \A j \in 1 .. Len(pattern) : SameIgnoringCase(command[at + j], pattern[j])

\* C5: with enabled = true the result is dangerous exactly when the lower-cased
\* command contains the lower-cased pattern of some declared rule, and a command
\* that matches no rule (the empty and the blank one included) gets the default.
C5_DangerousIffMatch ==
    (GuardReturned /\ guard_call.enabled) =>
        /\ GuardResult.is_dangerous <=> (MatchingRules # {})
        /\ (MatchingRules = {}) => (GuardResult = SafeguardResult_default)

\* An upper-case spelling of a dangerous command was checked and flagged.
C5_Witness ==
    /\ GuardReturned /\ guard_call.enabled
    /\ guard_call.command # to_lowercase(guard_call.command)
    /\ MatchingRules # {}
    /\ GuardResult.is_dangerous

\* C6: with enabled = true the result is that of the first rule, in declared
\* order (base list, then the platform list), whose pattern the command
\* contains: pattern, description and severity are that one rule's, and no rule
\* declared before it matches.
C6_FirstRuleWins ==
    (GuardReturned /\ guard_call.enabled /\ MatchingRules # {}) =>
        \E i \in MatchingRules :
            /\ \A j \in 1 .. (i - 1) : ~RuleMatches(j)
            /\ GuardResult.is_dangerous
            /\ GuardResult.matched_pattern = Some(DeclaredRules[i].pattern)
            /\ GuardResult.description = DeclaredRules[i].description
            /\ GuardResult.severity = DeclaredRules[i].severity

\* A command matching two rules of different severity got the earlier rule's.
C6_Witness ==
    /\ GuardReturned /\ guard_call.enabled
    /\ \E i, j \in MatchingRules :
          /\ i < j
          /\ DeclaredRules[i].severity # DeclaredRules[j].severity
          /\ GuardResult.matched_pattern = Some(DeclaredRules[i].pattern)
          /\ GuardResult.severity = DeclaredRules[i].severity

\* C7 as stated: a command containing the pattern of rule r in any casing is
\* dangerous with exactly the severity and description of r.
C7_Original ==
    (GuardReturned /\ guard_call.enabled) =>
        \A i \in 1 .. Len(DeclaredRules) :
            ContainsInAnyCasing(i) =>
                /\ GuardResult.is_dangerous
                /\ GuardResult.severity = DeclaredRules[i].severity
                /\ GuardResult.description = DeclaredRules[i].description

\* C7: a command containing the pattern of rule r in any casing is dangerous;
\* severity and description are exactly those of r when the command contains
\* the pattern of no rule declared before r, and otherwise those of the first
\* declared rule whose pattern it contains.
C7_RuleSeverity ==
    (GuardReturned /\ guard_call.enabled) =>
        \A i \in 1 .. Len(DeclaredRules) :
            ContainsInAnyCasing(i) =>
                LET first == CHOOSE f \in 1 .. i :
                                 /\ ContainsInAnyCasing(f)
                                 /\ \A e \in 1 .. (f - 1) : ~ContainsInAnyCasing(e)
                IN  /\ GuardResult.is_dangerous
                    /\ GuardResult.severity = DeclaredRules[first].severity
                    /\ GuardResult.description = DeclaredRules[first].description

\* The upper-case spelling of a rule's pattern, preceded by a harmless prefix,
\* was checked and got that rule's severity and description.
C7_Witness ==
    /\ GuardReturned /\ guard_call.enabled
    /\ \E i \in 1 .. Len(DeclaredRules) :
          /\ guard_call.command = PadPrefix \o ToUpper(DeclaredRules[i].pattern)
          /\ guard_call.command # to_lowercase(guard_call.command)
          /\ GuardResult.is_dangerous
          /\ GuardResult.severity = DeclaredRules[i].severity
          /\ GuardResult.description = DeclaredRules[i].description

\* C8: with enabled = false every command gets the default result, the
\* commands that contain a declared dangerous pattern included.
C8_DisabledIsDefault ==
    (GuardReturned /\ ~guard_call.enabled) =>
        /\ GuardResult = SafeguardResult_default
        /\ ~GuardResult.is_dangerous
        /\ GuardResult.matched_pattern = None
        /\ GuardResult.description = ""
        /\ GuardResult.severity = "low"

\* A command containing a critical pattern was checked with the matcher disabled.
C8_Witness ==
    /\ GuardReturned /\ ~guard_call.enabled
    /\ \E i \in 1 .. Len(DeclaredRules) :
          ContainsInAnyCasing(i) /\ DeclaredRules[i].severity = "critical"
    /\ GuardResult = SafeguardResult_default

(***************************************************************************)
(* The terminal session: lib.rs (spawn_shell, read_from_pty) and pty.rs    *)
(***************************************************************************)

\* Foreground calls are made by NumCallers concurrent callers.
NumCallers == 2
Callers == 1 .. NumCallers

\* A std::sync::Mutex is held by nobody, by a caller, or by the pump thread.
\* A lock is poisoned only by a panic of its holder; panics (a failed thread
\* creation, a failed write to stderr) are outside the model.
Unlocked == 0
PumpThread == NumCallers + 1

\* let mut local_buffer = [0u8; 4096], scaled: one read of the pump returns
\* at most ChunkMax bytes.
ChunkMax == 2
LOCAL_BUFFER_SIZE == ChunkMax

\* The shell emits at most MaxBytes bytes in a run, each one of Bytes: an
\* ASCII letter, and the lead and the continuation byte of a two-byte character.
MaxBytes == 3
Bytes == {97, 195, 169}

\* At most MaxShells shell processes are started in a run.
MaxShells == 2

\* The cwd of a new session (dirs::home_dir()), as code points.
HomeDir == <<126>>

Min(a, b) == IF a < b THEN a ELSE b

\* String::from_utf8_lossy on byte strings made of ASCII bytes and two-byte
\* sequences: the code points of the text, U+FFFD for every byte that is not
\* part of a valid sequence.
REPLACEMENT_CHARACTER == 65533
IsAscii(b) == b < 128
IsLead2(b) == b >= 194 /\ b <= 223
IsContinuation(b) == b >= 128 /\ b <= 191
RECURSIVE from_utf8_lossy(_)
from_utf8_lossy(data) ==
    IF data = <<>> THEN <<>>
    ELSE IF IsAscii(data[1]) THEN <<data[1]>> \o from_utf8_lossy(Tail(data))
    ELSE IF IsLead2(data[1]) /\ Len(data) >= 2 /\ IsContinuation(data[2])
         THEN <<(data[1] - 192) * 64 + (data[2] - 128)>> \o from_utf8_lossy(Tail(Tail(data)))
         ELSE <<REPLACEMENT_CHARACTER>> \o from_utf8_lossy(Tail(data))

\* try_update_cwd: the text between the first "PWD=" and the next line feed
\* becomes the cwd when it is not empty and names an existing path (exists is
\* the answer of the file system).
PWD_MARKER == <<80, 87, 68, 61>>
LINE_FEED == 10
Find(text, from, pattern) ==
    { i \in from .. (Len(text) - Len(pattern) + 1) :
          SubSeq(text, i, i + Len(pattern) - 1) = pattern }
First(S) == CHOOSE i \in S : \A j \in S : i <= j
try_update_cwd(cwd, text, exists) ==
    LET starts == Find(text, 1, PWD_MARKER)
    IN  IF starts = {} THEN cwd
        ELSE LET start == First(starts)
                 ends == Find(text, start, <<LINE_FEED>>)
             IN  IF ends = {} THEN cwd
                 ELSE LET pwd == SubSeq(text, start + Len(PWD_MARKER), First(ends) - 1)
                      IN  IF pwd # <<>> /\ exists THEN pwd ELSE cwd

String_new_Null == <<0>>

\* String::new(): the empty string.
String_new == <<>>

mem_take_Keeps(buf) == [data |-> buf, left |-> buf]

\* std::mem::take(&mut *buf): the bytes taken, and the empty Vec left behind.
mem_take(buf) == [data |-> buf, left |-> <<>>]

extend_from_slice_Drops(buf, slice) == buf

\* buf.extend_from_slice(&local_buffer[..n])
extend_from_slice(buf, slice) == buf \o slice

\* if pty_guard.is_none()
SpawnNeeded(manager) == manager = None

\* Where a caller is inside PtyManager::new.
NewSteps == {"new_openpty", "new_spawn_command", "new_clone_reader", "new_take_writer",
             "new_thread", "new_store"}

NoCounts == [shells |-> 0, pumps |-> 0, sessions |-> 0]

PtyInit ==
    /\ pty_manager = None
    /\ pty_lock = Unlocked
    /\ read_buffer = <<>>
    /\ buf_lock = Unlocked
    /\ pc = [c \in Callers |-> "idle"]
    /\ output = [c \in Callers |-> <<>>]
    /\ pump_pc = "none"
    /\ local_buffer = <<>>
    /\ pty_stream = <<>>
    /\ appended = <<>>
    /\ reads = <<>>
    /\ pty_count = NoCounts

fgVars == <<pty_manager, pty_lock, pc, output, reads, pty_count>>
pumpVars == <<pump_pc, local_buffer, pty_stream, appended>>

\* ---- spawn_shell (lib.rs) and PtyManager::new (pty.rs) ----

\* A call of spawn_shell or read_from_pty starts by taking the pty_manager
\* lock; a caller that is waiting for the lock has done nothing yet and is idle.

\* let mut pty_guard = state.pty_manager.lock()
SpawnLock(c) ==
    /\ pc[c] = "idle"
    /\ pty_lock = Unlocked
    /\ pty_lock' = c
    /\ pc' = [pc EXCEPT ![c] = "spawn_check"]
    /\ UNCHANGED <<pty_manager, read_buffer, buf_lock, output, reads, pty_count, pumpVars>>

\* if pty_guard.is_none() { PtyManager::new() ... }
SpawnCheck(c) ==
    /\ pc[c] = "spawn_check"
    /\ pc' = [pc EXCEPT ![c] = IF SpawnNeeded(pty_manager) THEN "new_openpty" ELSE "spawn_ok"]
    /\ UNCHANGED <<pty_manager, pty_lock, read_buffer, buf_lock, output, reads, pty_count,
                   pumpVars>>

\* A fallible step of PtyManager::new returns Err through `?`: the call
\* fails. A step after spawn_command fails only while one more shell may start.
NewFails(c, step) ==
    /\ pc[c] = step
    /\ step \in {"new_clone_reader", "new_take_writer"} => pty_count.shells < MaxShells
    /\ pc' = [pc EXCEPT ![c] = "spawn_err"]
    /\ UNCHANGED <<pty_manager, pty_lock, read_buffer, buf_lock, output, reads, pty_count,
                   pumpVars>>

\* pty_system.openpty(..)?
NewOpenPty(c) ==
    /\ pc[c] = "new_openpty"
    /\ pc' = [pc EXCEPT ![c] = "new_spawn_command"]
    /\ UNCHANGED <<pty_manager, pty_lock, read_buffer, buf_lock, output, reads, pty_count,
                   pumpVars>>

\* pair.slave.spawn_command(cmd)?: the shell process is started.
NewSpawnCommand(c) ==
    /\ pc[c] = "new_spawn_command"
    /\ pc' = [pc EXCEPT ![c] = "new_clone_reader"]
    /\ pty_count' = [pty_count EXCEPT !.shells = @ + 1]
    /\ UNCHANGED <<pty_manager, pty_lock, read_buffer, buf_lock, output, reads, pumpVars>>

\* pair.master.try_clone_reader()?
NewCloneReader(c) ==
    /\ pc[c] = "new_clone_reader"
    /\ pc' = [pc EXCEPT ![c] = "new_take_writer"]
    /\ UNCHANGED <<pty_manager, pty_lock, read_buffer, buf_lock, output, reads, pty_count,
                   pumpVars>>

\* pair.master.take_writer()?
NewTakeWriter(c) ==
    /\ pc[c] = "new_take_writer"
    /\ pc' = [pc EXCEPT ![c] = "new_thread"]
    /\ UNCHANGED <<pty_manager, pty_lock, read_buffer, buf_lock, output, reads, pty_count,
                   pumpVars>>

\* read_buffer = Arc::new(Mutex::new(Vec::new())); std::thread::spawn(..)
NewStartThread(c) ==
    /\ pc[c] = "new_thread"
    /\ pc' = [pc EXCEPT ![c] = "new_store"]
    /\ read_buffer' = <<>>
    /\ pump_pc' = "read"
    /\ pty_count' = [pty_count EXCEPT !.pumps = @ + 1]
    /\ UNCHANGED <<pty_manager, pty_lock, buf_lock, output, reads, local_buffer,
                   pty_stream, appended>>

\* Ok(Self { .. }) and, in spawn_shell, *pty_guard = Some(manager)
NewStore(c) ==
    /\ pc[c] = "new_store"
    /\ pty_manager' = Some([cwd |-> HomeDir])
    /\ pc' = [pc EXCEPT ![c] = "spawn_ok"]
    /\ pty_count' = [pty_count EXCEPT !.sessions = @ + 1]
    /\ UNCHANGED <<pty_lock, read_buffer, buf_lock, output, reads, pumpVars>>

\* spawn_shell returns Ok(()) or Err(..); the guard is dropped.
SpawnReturn(c) ==
    /\ pc[c] \in {"spawn_ok", "spawn_err"}
    /\ pty_lock' = Unlocked
    /\ pc' = [pc EXCEPT ![c] = "idle"]
    /\ UNCHANGED <<pty_manager, read_buffer, buf_lock, output, reads, pty_count, pumpVars>>

\* ---- write_to_pty (lib.rs) and PtyManager::write (pty.rs) ----

\* let mut pty_guard = state.pty_manager.lock()
WriteLock(c) ==
    /\ pc[c] = "idle"
    /\ pty_lock = Unlocked
    /\ pty_lock' = c
    /\ pc' = [pc EXCEPT ![c] = "write_check"]
    /\ UNCHANGED <<pty_manager, read_buffer, buf_lock, output, reads, pty_count, pumpVars>>

\* if let Some(ref mut manager) = *pty_guard { manager.write(..)? }
WriteCheck(c) ==
    /\ pc[c] = "write_check"
    /\ pc' = [pc EXCEPT ![c] = IF pty_manager = None THEN "write_ok" ELSE "write_all"]
    /\ UNCHANGED <<pty_manager, pty_lock, read_buffer, buf_lock, output, reads, pty_count,
                   pumpVars>>

\* writer.write_all(data)?; writer.flush()?: the bytes reach the shell, or the
\* stream cannot be written and the call fails.
WriteAll(c, ok) ==
    /\ pc[c] = "write_all"
    /\ pc' = [pc EXCEPT ![c] = IF ok THEN "write_ok" ELSE "write_err"]
    /\ UNCHANGED <<pty_manager, pty_lock, read_buffer, buf_lock, output, reads, pty_count,
                   pumpVars>>

\* write_to_pty returns Ok(()) or Err(..); the guard is dropped.
WriteReturn(c) ==
    /\ pc[c] \in {"write_ok", "write_err"}
    /\ pty_lock' = Unlocked
    /\ pc' = [pc EXCEPT ![c] = "idle"]
    /\ UNCHANGED <<pty_manager, read_buffer, buf_lock, output, reads, pty_count, pumpVars>>

\* ---- read_from_pty (lib.rs) and PtyManager::read (pty.rs) ----

\* let mut pty_guard = state.pty_manager.lock()
ReadLock(c) ==
    /\ pc[c] = "idle"
    /\ pty_lock = Unlocked
    /\ pty_lock' = c
    /\ pc' = [pc EXCEPT ![c] = "read_check"]
    /\ UNCHANGED <<pty_manager, read_buffer, buf_lock, output, reads, pty_count, pumpVars>>

\* if let Some(ref mut manager) = *pty_guard { manager.read() } else { Ok(String::new()) }
ReadCheck(c) ==
    /\ pc[c] = "read_check"
    /\ IF pty_manager = None
       THEN /\ output' = [output EXCEPT ![c] = String_new]
            /\ pc' = [pc EXCEPT ![c] = "read_ok"]
       ELSE /\ output' = output
            /\ pc' = [pc EXCEPT ![c] = "read_lock_buffer"]
    /\ UNCHANGED <<pty_manager, pty_lock, read_buffer, buf_lock, reads, pty_count, pumpVars>>

\* let mut buf = self.read_buffer.lock()
ReadLockBuffer(c) ==
    /\ pc[c] = "read_lock_buffer"
    /\ buf_lock = Unlocked
    /\ buf_lock' = c
    /\ pc' = [pc EXCEPT ![c] = "read_take"]
    /\ UNCHANGED <<pty_manager, pty_lock, read_buffer, output, reads, pty_count, pumpVars>>

\* if buf.is_empty() { String::new() } else { String::from_utf8_lossy(&mem::take(buf)) }
ReadTake(c) ==
    /\ pc[c] = "read_take"
    /\ IF read_buffer = <<>>
       THEN /\ output' = [output EXCEPT ![c] = String_new]
            /\ UNCHANGED <<read_buffer, reads>>
       ELSE LET taken == mem_take(read_buffer)
            IN  /\ read_buffer' = taken.left
                /\ reads' = Append(reads, taken.data)
                /\ output' = [output EXCEPT ![c] = from_utf8_lossy(taken.data)]
    /\ pc' = [pc EXCEPT ![c] = "read_unlock_buffer"]
    /\ UNCHANGED <<pty_manager, pty_lock, buf_lock, pty_count, pumpVars>>

\* The buffer guard is dropped at the end of the block.
ReadUnlockBuffer(c) ==
    /\ pc[c] = "read_unlock_buffer"
    /\ buf_lock' = Unlocked
    /\ pc' = [pc EXCEPT ![c] = "read_cwd"]
    /\ UNCHANGED <<pty_manager, pty_lock, read_buffer, output, reads, pty_count, pumpVars>>

\* if !output.is_empty() { self.try_update_cwd(&output) }; Ok(output)
ReadUpdateCwd(c) ==
    /\ pc[c] = "read_cwd"
    /\ \E exists \in BOOLEAN :
          pty_manager' =
              IF output[c] # <<>>
              THEN Some([cwd |-> try_update_cwd(pty_manager[1].cwd, output[c], exists)])
              ELSE pty_manager
    /\ pc' = [pc EXCEPT ![c] = "read_ok"]
    /\ UNCHANGED <<pty_lock, read_buffer, buf_lock, output, reads, pty_count, pumpVars>>

\* read_from_pty returns Ok(output); the guard is dropped.
ReadReturn(c) ==
    /\ pc[c] = "read_ok"
    /\ pty_lock' = Unlocked
    /\ pc' = [pc EXCEPT ![c] = "idle"]
    /\ output' = [output EXCEPT ![c] = <<>>]
    /\ UNCHANGED <<pty_manager, read_buffer, buf_lock, reads, pty_count, pumpVars>>

\* ---- the shell and the pump thread (pty.rs) ----

BytesInFlight == Len(appended) + Len(local_buffer) + Len(pty_stream)

\* The shell of the session writes a byte to the pseudo-terminal.
ShellEmit(b) ==
    /\ pump_pc # "none"
    /\ BytesInFlight < MaxBytes
    /\ pty_stream' = Append(pty_stream, b)
    /\ UNCHANGED <<fgVars, read_buffer, buf_lock, pump_pc, local_buffer, appended>>

\* reader_guard.read(&mut local_buffer) returns Ok(n), n > 0
PumpRead(n) ==
    /\ pump_pc = "read"
    /\ n \in 1 .. Min(LOCAL_BUFFER_SIZE, Len(pty_stream))
    /\ local_buffer' = SubSeq(pty_stream, 1, n)
    /\ pty_stream' = SubSeq(pty_stream, n + 1, Len(pty_stream))
    /\ pump_pc' = "lock_buffer"
    /\ UNCHANGED <<fgVars, read_buffer, buf_lock, appended>>

\* The results of a read that returns no bytes: Ok(0), Err of kind WouldBlock,
\* and any other Err.
EmptyReads == {"eof", "would_block", "error"}

PumpAfter_BreaksOnEof(result) == IF result = "eof" THEN "exited" ELSE "sleep"

\* pty.rs 122-142: where the loop goes after a read that returned no bytes.
\* Every arm sleeps (for 100 ms, 10 ms and 100 ms) and falls out of the match;
\* none of them breaks.
PumpAfter(result) ==
    CASE result = "eof" -> "sleep"
      [] result = "would_block" -> "sleep"
      [] result = "error" -> "sleep"

\* The read returns Ok(0), WouldBlock or another error: the thread sleeps.
PumpReadNothing ==
    /\ pump_pc = "read"
    /\ \E result \in EmptyReads : pump_pc' = PumpAfter(result)
    /\ UNCHANGED <<fgVars, read_buffer, buf_lock, local_buffer, pty_stream, appended>>

\* The sleep ends and the loop goes round.
PumpWake ==
    /\ pump_pc = "sleep"
    /\ pump_pc' = "read"
    /\ UNCHANGED <<fgVars, read_buffer, buf_lock, local_buffer, pty_stream, appended>>

\* if let Ok(mut buf) = buffer_clone.lock()
PumpLockBuffer ==
    /\ pump_pc = "lock_buffer"
    /\ buf_lock = Unlocked
    /\ buf_lock' = PumpThread
    /\ pump_pc' = "append"
    /\ UNCHANGED <<fgVars, read_buffer, local_buffer, pty_stream, appended>>

\* buf.extend_from_slice(&local_buffer[..n]); the guard is dropped.
PumpAppend ==
    /\ pump_pc = "append"
    /\ read_buffer' = extend_from_slice(read_buffer, local_buffer)
    /\ appended' = appended \o local_buffer
    /\ local_buffer' = <<>>
    /\ buf_lock' = Unlocked
    /\ pump_pc' = "read"
    /\ UNCHANGED <<fgVars, pty_stream>>

\* The steps of the foreground callers.
CallerNext ==
    \/ \E c \in Callers : SpawnLock(c)
    \/ \E c \in Callers : SpawnCheck(c)
    \/ \E c \in Callers :
          \E step \in {"new_openpty", "new_spawn_command", "new_clone_reader",
                       "new_take_writer"} : NewFails(c, step)
    \/ \E c \in Callers : NewOpenPty(c)
    \/ \E c \in Callers : NewSpawnCommand(c)
    \/ \E c \in Callers : NewCloneReader(c)
    \/ \E c \in Callers : NewTakeWriter(c)
    \/ \E c \in Callers : NewStartThread(c)
    \/ \E c \in Callers : NewStore(c)
    \/ \E c \in Callers : SpawnReturn(c)
    \/ \E c \in Callers : WriteLock(c)
    \/ \E c \in Callers : WriteCheck(c)
    \/ \E c \in Callers, ok \in BOOLEAN : WriteAll(c, ok)
    \/ \E c \in Callers : WriteReturn(c)
    \/ \E c \in Callers : ReadLock(c)
    \/ \E c \in Callers : ReadCheck(c)
    \/ \E c \in Callers : ReadLockBuffer(c)
    \/ \E c \in Callers : ReadTake(c)
    \/ \E c \in Callers : ReadUnlockBuffer(c)
    \/ \E c \in Callers : ReadUpdateCwd(c)
    \/ \E c \in Callers : ReadReturn(c)

\* The steps of the pump thread.
PumpNext ==
    \/ \E n \in 1 .. LOCAL_BUFFER_SIZE : PumpRead(n)
    \/ PumpReadNothing
    \/ PumpWake
    \/ PumpLockBuffer
    \/ PumpAppend

PtyNext ==
    \/ CallerNext
    \/ \E b \in Bytes : ShellEmit(b)
    \/ PumpNext

\* A shell that prints one text: "a", then the two bytes of U+00E9, and again.
\* Neither the pump nor the take of a read looks at the bytes it moves, so
\* the order in which they are delivered does not depend on their values.
ShellText == <<97, 195, 169>>
ShellEmitText == ShellEmit(ShellText[(BytesInFlight % Len(ShellText)) + 1])

PtyLiveNext ==
    \/ CallerNext
    \/ ShellEmitText
    \/ PumpNext

\* ---- scheduling ----

\* A caller that holds the pty_manager lock runs its call to the end: every
\* step after the lock was taken, except waiting for the read_buffer lock.
CallerRuns ==
    \E c \in Callers :
        \/ SpawnCheck(c)
        \/ \E step \in {"new_openpty", "new_spawn_command", "new_clone_reader",
                         "new_take_writer"} : NewFails(c, step)
        \/ NewOpenPty(c) \/ NewSpawnCommand(c) \/ NewCloneReader(c) \/ NewTakeWriter(c)
        \/ NewStartThread(c) \/ NewStore(c) \/ SpawnReturn(c)
        \/ WriteCheck(c) \/ (\E ok \in BOOLEAN : WriteAll(c, ok)) \/ WriteReturn(c)
        \/ ReadCheck(c) \/ ReadTake(c) \/ ReadUnlockBuffer(c) \/ ReadUpdateCwd(c)
        \/ ReadReturn(c)

\* The frontend polls read_from_pty again and again.
Polls == \E c \in Callers : ReadLock(c)

\* A reader waiting for the read_buffer lock.
ReaderLocksBuffer == \E c \in Callers : ReadLockBuffer(c)

\* A read of the pump returns the bytes that are pending.
PumpReads == \E n \in 1 .. LOCAL_BUFFER_SIZE : PumpRead(n)

\* The steps of the pump thread that wait for nothing.
PumpRuns == PumpWake \/ PumpAppend

OnlyPty(A) ==
    A /\ UNCHANGED <<cacheVars, guardVars, orchVars, histVars, fepVars, cfgVars, lockVars>>

\* Threads that can run do run; a thread that can take a lock again and again
\* gets it; a pump read attempted again and again while bytes are pending
\* returns them.
PtyFairness ==
    /\ WF_vars(OnlyPty(CallerRuns))
    /\ SF_vars(OnlyPty(Polls))
    /\ SF_vars(OnlyPty(ReaderLocksBuffer))
    /\ SF_vars(OnlyPty(PumpReads))
    /\ WF_vars(OnlyPty(PumpRuns))
    /\ SF_vars(OnlyPty(PumpLockBuffer))

\* ---- claims about the session ----

RECURSIVE Concat(_)
Concat(chunks) == IF chunks = <<>> THEN <<>> ELSE Head(chunks) \o Concat(Tail(chunks))

\* C9 as stated: at most one session exists; the shell is spawned and the pump
\* thread is started at most once; and while a session exists no spawn_shell
\* call is inside PtyManager::new or about to fail.
C9_Original ==
    /\ pty_count.sessions <= 1
    /\ pty_count.shells <= 1
    /\ pty_count.pumps <= 1
    /\ (pty_manager # None) =>
           \A c \in Callers : pc[c] \notin NewSteps /\ pc[c] # "spawn_err"

\* What holds of spawn_shell: at most one session is ever stored and at most
\* one pump thread started, only the holder of the pty_manager lock is inside
\* PtyManager::new, and a call that finds a session returns Ok without entering it.
SpawnOnce ==
    /\ pty_count.sessions <= 1
    /\ pty_count.pumps <= 1
    /\ \A c \in Callers : pc[c] \in NewSteps => pty_lock = c
    /\ (pty_manager # None) =>
           \A c \in Callers : pc[c] \notin NewSteps /\ pc[c] # "spawn_err"

\* A second shell process has been started although no session was ever stored.
C9_Witness ==
    /\ pty_count.shells >= 2
    /\ pty_count.sessions = 0
    /\ pty_manager = None

\* C10: the bytes the pump has appended are, in append order, the bytes the
\* reads have taken followed by the bytes still in the shared buffer (none
\* lost, duplicated or reordered), and the buffer is empty right after a read
\* has taken it, while the reader still holds the buffer lock.
C10_BytesConserved ==
    /\ appended = Concat(reads) \o read_buffer
    /\ \A c \in Callers : pc[c] = "read_unlock_buffer" => read_buffer = <<>>

\* Two reads have each taken bytes and the pump has appended more since.
C10_Witness ==
    /\ Len(reads) >= 2
    /\ read_buffer # <<>>
    /\ pump_pc = "read"

\* The bytes the reads have taken so far.
Drained == Concat(reads)

\* C11: under fair scheduling, whatever is written to the session meanwhile,
\* every byte the shell has emitted is eventually appended and taken by a read
\* (the k-th byte emitted becomes the k-th byte drained), and while emitted
\* bytes are pending in the pseudo-terminal a later read returns a non-empty string.
C11_EventuallyRead ==
    /\ \A k \in 1 .. MaxBytes : (BytesInFlight >= k) ~> (Len(Drained) >= k)
    /\ (pty_stream # <<>>) ~> (\E c \in Callers : pc[c] = "read_ok" /\ output[c] # <<>>)

\* A read is about to return text, all the shell has emitted so far, while the
\* pump sleeps after a read that returned nothing.
C11_Witness ==
    /\ \E c \in Callers : pc[c] = "read_ok" /\ output[c] # <<>>
    /\ BytesInFlight = Len(Drained)
    /\ pump_pc = "sleep"

\* C12: a read that finds nothing pending returns the empty string as a
\* success and leaves the shared buffer and the cwd as they are: read_from_pty
\* without a session goes straight to returning Ok of the empty string; on a
\* session with an empty buffer the take leaves the buffer empty and yields the
\* empty string, the cwd inference is skipped, and that string is returned.
C12_EmptyRead ==
    [][\A c \in Callers :
         /\ (pc[c] = "read_check" /\ pc'[c] # "read_check" /\ pty_manager = None) =>
                /\ pc'[c] = "read_ok" /\ output'[c] = <<>>
                /\ pty_manager' = None /\ read_buffer' = read_buffer
         /\ (pc[c] = "read_take" /\ pc'[c] # "read_take" /\ read_buffer = <<>>) =>
                /\ pc'[c] = "read_unlock_buffer" /\ output'[c] = <<>>
                /\ read_buffer' = <<>> /\ reads' = reads /\ pty_manager' = pty_manager
         /\ (pc[c] = "read_unlock_buffer" /\ pc'[c] # "read_unlock_buffer") =>
                /\ pc'[c] = "read_cwd" /\ output'[c] = output[c]
                /\ read_buffer' = read_buffer /\ pty_manager' = pty_manager
         /\ (pc[c] = "read_cwd" /\ pc'[c] # "read_cwd" /\ output[c] = <<>>) =>
                /\ pc'[c] = "read_ok" /\ output'[c] = <<>>
                /\ read_buffer' = read_buffer /\ pty_manager' = pty_manager
         /\ (pc[c] = "read_ok" /\ pc'[c] # "read_ok") =>
                /\ pc'[c] = "idle"
                /\ read_buffer' = read_buffer /\ pty_manager' = pty_manager
      ]_vars

\* A read of a live session, whose shell has emitted nothing yet, is about to
\* return the empty string.
C12_Witness ==
    /\ pty_manager # None
    /\ \E c \in Callers : pc[c] = "read_ok" /\ output[c] = <<>>
    /\ read_buffer = <<>>
    /\ reads = <<>>

\* The positions of a pump thread that is running.
PumpRunning == {"read", "sleep", "lock_buffer", "append"}

\* C23: the pump thread, once started, never stops: a read that returned
\* nothing (end of file, would-block or an error) is followed by the sleep and
\* the sleep by the next read; a read that returned bytes is followed by the
\* append of exactly these bytes and then by the next read; and whenever a
\* session exists the thread is running.
C23_PumpNeverStops ==
    [][/\ pump_pc # "none" => pump_pc' \in PumpRunning
       /\ pty_manager' # None => pump_pc' \in PumpRunning
       /\ (pump_pc = "read" /\ pump_pc' # "read") =>
              \/ pump_pc' = "sleep" /\ local_buffer' = <<>>
              \/ pump_pc' = "lock_buffer" /\ local_buffer' # <<>>
       /\ (pump_pc = "sleep" /\ pump_pc' # "sleep") => pump_pc' = "read"
       /\ (pump_pc = "lock_buffer" /\ pump_pc' # "lock_buffer") => pump_pc' = "append"
       /\ (pump_pc = "append" /\ pump_pc' # "append") =>
              /\ pump_pc' = "read"
              /\ read_buffer' = read_buffer \o local_buffer]_vars

\* In a live session the pump has appended bytes, has since read nothing and
\* sleeps.
C23_Witness ==
    /\ pty_manager # None
    /\ appended # <<>>
    /\ pump_pc = "sleep"

\* The text of successive reads, one after the other.
RECURSIVE ConcatText(_)
ConcatText(chunks) ==
    IF chunks = <<>> THEN <<>> ELSE from_utf8_lossy(Head(chunks)) \o ConcatText(Tail(chunks))

\* C30 (as stated): the strings returned by successive reads, concatenated,
\* are the lossy decoding of all the bytes these reads have drained.
C30_Original == ConcatText(reads) = from_utf8_lossy(Concat(reads))

\* Two reads have drained the lead byte and the continuation byte of one
\* two-byte character, one each.
C30_Witness ==
    /\ Len(reads) = 2
    /\ reads[1] = <<195>>
    /\ reads[2] = <<169>>
    /\ ConcatText(reads) = <<REPLACEMENT_CHARACTER, REPLACEMENT_CHARACTER>>
    /\ from_utf8_lossy(Concat(reads)) = <<233>>

(***************************************************************************)
(* The request handlers of lib.rs that call the AI client: harm             *)
(* classification (harm.rs), completion (llm/client.rs) and error fixes     *)
(* (fep.rs)                                                                  *)
(***************************************************************************)

\* The requests that may be in progress at once (tauri runs each invocation of
\* an async command as its own task).
NumRequests == 2
Requests == 1 .. NumRequests

\* ---- text ----

\* Texts are sequences of characters.  char::is_whitespace for the characters
\* of the model.
IsWhitespace(ch) == ch \in {" ", "\t", "\n"}

RECURSIVE trim_start(_)
trim_start(s) ==
    IF s # <<>> /\ IsWhitespace(Head(s)) THEN trim_start(Tail(s)) ELSE s

RECURSIVE trim_end(_)
trim_end(s) ==
    IF s # <<>> /\ IsWhitespace(s[Len(s)]) THEN trim_end(SubSeq(s, 1, Len(s) - 1)) ELSE s

trim_KeepsLeading(s) == trim_end(s)

\* str::trim
trim(s) == trim_end(trim_start(s))

\* ---- llm/providers.rs, config.rs ----

Provider_from_str(s) ==
    LET lower == to_lowercase(s)
    IN  CASE lower = <<"o", "p", "e", "n", "a", "i">> -> "OpenAI"
          [] lower = <<"a", "n", "t", "h", "r", "o", "p", "i", "c">> -> "Anthropic"
          [] lower = <<"g", "r", "o", "q">> -> "Groq"
          [] lower = <<"o", "l", "l", "a", "m", "a">> -> "Ollama"
          [] OTHER -> "OpenAI"

requires_api_key_Never(provider) == FALSE

requires_api_key(provider) == provider # "Ollama"

\* The provider names a configuration file may hold: the four the code knows
\* (one of them not in lower case) and one it does not.
ProviderNames ==
    { <<"o", "p", "e", "n", "a", "i">>,
      <<"a", "n", "t", "h", "r", "o", "p", "i", "c">>,
      <<"g", "r", "o", "q">>,
      <<"O", "l", "l", "a", "m", "a">>,
      <<"a", "z", "u", "r", "e">> }

ApiKeys == { <<>>, <<"s", "k">> }

\* AppConfig, the fields the request handlers read.
AppConfigs ==
    [provider : ProviderNames, api_key : ApiKeys, harm_detection_enabled : BOOLEAN,
     safeguards_enabled : BOOLEAN]

AppConfig_default ==
    [provider |-> <<"o", "p", "e", "n", "a", "i">>, api_key |-> <<>>,
     harm_detection_enabled |-> TRUE, safeguards_enabled |-> TRUE]

\* ---- the AI client ----

\* What send_*_request / send_harm_check_* / send_fep_* return: an error
\* (the request failed or timed out, the status is not a success, the body is
\* not the provider's JSON, the body holds no message) or the message text.
AiErrors == {"Request failed", "API error", "Failed to parse response", "No response"}

\* A message text is a sequence of segments: a single brace, a character that
\* is neither a brace nor white space, or a complete JSON object, braces
\* included, that deserializes to v (Obj(v)) or lacks the fields of the
\* expected struct (OtherObj).
OpenBrace == [kind |-> "{", value |-> None]
CloseBrace == [kind |-> "}", value |-> None]
Txt == [kind |-> "txt", value |-> None]
Obj(v) == [kind |-> "obj", value |-> Some(v)]
OtherObj == [kind |-> "obj", value |-> None]
IsObj(seg) == seg.kind = "obj"
SegLen(seg) == IF IsObj(seg) THEN 2 ELSE 1

\* The byte offset at which segment i starts.
RECURSIVE ByteOffset(_, _)
ByteOffset(text, i) ==
    IF i = 1 THEN 0 ELSE ByteOffset(text, i - 1) + SegLen(text[i - 1])

Last(S) == CHOOSE i \in S : \A j \in S : i >= j

\* serde_json::from_str::<T>(text): Some(v) when the whole text is one object
\* with the fields of T.
from_str(text, T) ==
    IF Len(text) = 1 /\ IsObj(text[1]) /\ text[1].value # None /\ text[1].value[1] \in T
    THEN text[1].value
    ELSE None

\* response.find('{'), response.rfind('}') and &response[start..=end]: "none"
\* when a brace is missing, "panic" when the slice start..end + 1 is out of
\* order (the first '{' lies more than one byte after the last '}'), else the
\* slice.
BraceSlice(response) ==
    LET opens == { i \in 1 .. Len(response) : response[i].kind \in {"{", "obj"} }
        closes == { i \in 1 .. Len(response) : response[i].kind \in {"}", "obj"} }
    IN  IF opens = {} \/ closes = {} THEN [kind |-> "none", text |-> <<>>]
        ELSE LET i == First(opens)
                 j == Last(closes)
                 start == ByteOffset(response, i)
                 end == ByteOffset(response, j) + SegLen(response[j]) - 1
             IN  IF start > end + 1 THEN [kind |-> "panic", text |-> <<>>]
                 ELSE [kind |-> "slice",
                       text |-> IF i > j THEN <<>> ELSE SubSeq(response, i, j)]

\* A function that returns value, and one that panics.
Returned(value) == [panicked |-> FALSE, value |-> value]
Panicked == [panicked |-> TRUE, value |-> None]

\* Result<T, String>
Ok(value) == [ok |-> TRUE, value |-> value, error |-> ""]
Err(error) == [ok |-> FALSE, value |-> None, error |-> error]

\* ---- harm.rs: check_command_harm ----

parse_harm_response_OnlyWhole(response) ==
    IF from_str(response, HarmResults) # None
    THEN Returned(from_str(response, HarmResults)[1])
    ELSE Returned(HarmResult_default)

parse_harm_response(response) ==
    IF from_str(response, HarmResults) # None
    THEN Returned(from_str(response, HarmResults)[1])
    ELSE LET json_str == BraceSlice(response)
         IN  IF json_str.kind = "panic" THEN Panicked
             ELSE IF json_str.kind = "slice" /\ from_str(json_str.text, HarmResults) # None
                  THEN Returned(from_str(json_str.text, HarmResults)[1])
                  ELSE Returned(HarmResult_default)

Harmful == [is_harmful |-> TRUE, reason |-> "Deletes entire filesystem", severity |-> "critical"]

\* The message texts of the model: a verdict, a verdict inside prose, prose,
\* nothing, an object that is no verdict, an unclosed brace, and braces in
\* prose with the closing one first (adjacent, and apart).
HarmReplies ==
    { <<Obj(Harmful)>>, <<Obj(HarmResult_default)>>,
      <<Txt, Obj(Harmful), Txt>>,
      <<Txt>>, <<>>, <<OtherObj>>, <<OpenBrace, Txt>>,
      <<CloseBrace, OpenBrace>>, <<CloseBrace, Txt, OpenBrace>> }

HarmOutcomes == { Err(e) : e \in AiErrors } \cup { Ok(text) : text \in HarmReplies }

\* What the client delivered, as the request remembers it: a failure, a text
\* that is a verdict or holds one between prose, or any other text.
NoReply == [class |-> "none", verdict |-> None]
ReplyOf(outcome) ==
    IF ~outcome.ok THEN [class |-> "failed", verdict |-> None]
    ELSE LET text == outcome.value
             objs == { i \in 1 .. Len(text) : IsObj(text[i]) }
         IN  IF /\ Cardinality(objs) = 1
                /\ \A i \in 1 .. Len(text) : text[i].kind \notin {"{", "}"}
                /\ text[First(objs)].value # None
             THEN [class |-> "verdict", verdict |-> text[First(objs)].value]
             ELSE [class |-> "unparseable", verdict |-> None]

\* The configurations set while harm requests run: the default one (a
\* credentialed provider without a key), the same with a key, with harm
\* detection enabled and disabled, and the local provider without a key.
HarmConfigs ==
    { AppConfig_default,
      [AppConfig_default EXCEPT !.api_key = <<"s", "k">>],
      [AppConfig_default EXCEPT !.api_key = <<"s", "k">>, !.harm_detection_enabled = FALSE],
      [AppConfig_default EXCEPT !.provider = <<"O", "l", "l", "a", "m", "a">>] }

\* The commands classified: a command and a blank one.
HarmCommands == { <<"r", "m", " ", "-", "r", "f", " ", "/">>, <<" ">> }

\* A request: the handler invoked (op), where it is (pc), its argument (the
\* command, or the input to complete), whether it has called the AI client,
\* what the client delivered, what the cache lookup returned, and the value it
\* returns (set when known).
IdleRequest ==
    [op |-> "none", pc |-> "idle", command |-> <<>>, called |-> FALSE, reply |-> NoReply,
     hit |-> None, ret |-> None]

\* lib.rs 413: load_config().unwrap_or_default(); no request is in progress.
OrchInit ==
    /\ config = AppConfig_default
    /\ req = [c \in Requests |-> IdleRequest]

\* Time passes (Instant::now() of the cache named): a full TTL, so that what
\* was stored before is expired after.
Tick(name) ==
    /\ now + TtlOf(name) <= MaxTime(name)
    /\ now' = now + TtlOf(name)
    /\ UNCHANGED <<focus, cache, harm_cache, cache_op, cache_hist, config, req>>

\* lib.rs 187-192: the cache lookup, under the harm_cache lock.
HarmLookup(c, command) ==
    /\ req[c].pc = "idle"
    /\ LET cached == HarmCache_get(harm_cache, command, now)
       IN  req' = [req EXCEPT ![c] =
                     IF cached # None
                     THEN [IdleRequest EXCEPT !.op = "harm", !.pc = "ret",
                                              !.command = command,
                                              !.hit = cached, !.ret = Some(Ok(cached[1]))]
                     ELSE [IdleRequest EXCEPT !.op = "harm", !.pc = "miss",
                                              !.command = command]]
    /\ UNCHANGED <<cacheVars, config>>

\* lib.rs 200: the check of the flag.
HarmDetectionOn_Always(cfg) == TRUE

HarmDetectionOn(cfg) == cfg.harm_detection_enabled

\* lib.rs 148-153 (set_config): the configuration is replaced under the config
\* lock.
SetConfig(new_config) ==
    /\ config # new_config
    /\ config' = new_config
    /\ UNCHANGED <<cacheVars, req>>

\* lib.rs 194-204 and harm.rs 108-143.  The configuration is cloned under the
\* config lock, and from then on the request reads only its clone, so the
\* steps up to the sending of the HTTP request are one step here.  With harm
\* detection disabled the request returns the default; a blank command and a
\* missing key make harm::check_command_harm return the default; else the HTTP
\* client is built (built = FALSE: the builder fails) and the request is sent.
HarmCheck(c, built) ==
    /\ req[c].op = "harm"
    /\ req[c].pc = "miss"
    /\ LET provider == Provider_from_str(config.provider)
       IN  req' = [req EXCEPT ![c] =
                     IF ~HarmDetectionOn(config)
                     THEN [@ EXCEPT !.pc = "ret", !.ret = Some(Ok(HarmResult_default))]
                     ELSE IF trim(@.command) = <<>>
                     THEN [@ EXCEPT !.pc = "store", !.ret = Some(Ok(HarmResult_default))]
                     ELSE IF requires_api_key(provider) /\ config.api_key = <<>>
                     THEN [@ EXCEPT !.pc = "store", !.ret = Some(Ok(HarmResult_default))]
                     ELSE IF ~built
                     THEN [@ EXCEPT !.pc = "ret", !.ret = Some(Err("builder error"))]
                     ELSE [@ EXCEPT !.pc = "await", !.called = TRUE]]
    /\ UNCHANGED <<cacheVars, config>>

\* harm.rs 133-149: the call completes with outcome.
HarmReply(c, outcome) ==
    /\ req[c].op = "harm"
    /\ req[c].pc = "await"
    /\ LET result == IF outcome.ok THEN parse_harm_response(outcome.value)
                     ELSE Returned(HarmResult_default)
       IN  req' = [req EXCEPT ![c] =
                     IF result.panicked
                     THEN [@ EXCEPT !.pc = "panicked", !.reply = ReplyOf(outcome)]
                     ELSE [@ EXCEPT !.pc = "store", !.reply = ReplyOf(outcome),
                                    !.ret = Some(Ok(result.value))]]
    /\ UNCHANGED <<cacheVars, config>>

\* lib.rs 207-210: cache.set(command, result), under the harm_cache lock.
HarmStore(c) ==
    /\ req[c].op = "harm"
    /\ req[c].pc = "store"
    /\ \E evicted \in HarmCache_set_evicted(harm_cache) :
           harm_cache' = HarmCache_insert(HarmCache_evict_expired(evicted, now),
                                          req[c].command, req[c].ret[1].value, now)
    /\ req' = [req EXCEPT ![c].pc = "ret"]
    /\ UNCHANGED <<now, focus, cache, cache_op, cache_hist, config>>

\* The request is over: its value has been returned (lib.rs 191, 201, 204,
\* 212) or its task has panicked.
RequestEnds(c) ==
    /\ req[c].pc \in {"ret", "panicked"}
    /\ req' = [req EXCEPT ![c] = IdleRequest]
    /\ UNCHANGED <<cacheVars, config>>

HarmNext ==
    \/ Tick("harm_cache")
    \/ \E c \in Requests, command \in HarmCommands : HarmLookup(c, command)
    \/ \E new_config \in HarmConfigs : SetConfig(new_config)
    \/ \E c \in Requests, built \in BOOLEAN : HarmCheck(c, built)
    \/ \E c \in Requests, outcome \in HarmOutcomes : HarmReply(c, outcome)
    \/ \E c \in Requests : HarmStore(c)
    \/ \E c \in Requests : RequestEnds(c)

\* ---- claims about harm classification ----

HarmFresh(command) ==
    /\ Md5Hex(command) \in DOMAIN harm_cache
    /\ now - harm_cache[Md5Hex(command)].created_at < HARM_CACHE_TTL_SECS

ReturnsOk(c, value) ==
    /\ req[c].pc \in {"store", "ret"}
    /\ req[c].ret # None
    /\ req[c].ret[1].ok
    /\ req[c].ret[1].value = value

\* C13: a harm classification request whose AI-client call has failed (request
\* error, timeout, non-success status, malformed body) or has delivered a text
\* that holds no verdict returns Ok(HarmResult::default()): it neither returns
\* an error nor ends without returning.
C13_Original ==
    \A c \in Requests :
        req[c].reply.class \in {"failed", "unparseable"} => ReturnsOk(c, HarmResult_default)

\* What holds: a failed call, and a text whose first '{' does not lie behind
\* its last '}', give the default.
C13_ErrorIsDefault ==
    \A c \in Requests :
        /\ req[c].reply.class = "failed" => ReturnsOk(c, HarmResult_default)
        /\ req[c].reply.class = "unparseable" =>
               req[c].pc = "panicked" \/ ReturnsOk(c, HarmResult_default)

C13_Witness ==
    \E c \in Requests :
        /\ req[c].pc = "panicked"
        /\ req[c].called
        /\ req[c].reply.class = "unparseable"

\* C14: a harm classification request begins with the cache lookup; a hit is
\* returned as it is, without a call of the AI client, whatever the
\* configuration; a miss with harm detection disabled returns the default
\* without a call; the AI client is called only by a request that missed, with
\* harm detection enabled.
C14_CacheFirst ==
    [][\A c \in Requests :
         /\ (req[c].pc = "idle" /\ req'[c].pc # "idle") =>
                LET command == req'[c].command
                IN  /\ ~req'[c].called
                    /\ IF HarmFresh(command)
                       THEN /\ req'[c].pc = "ret"
                            /\ req'[c].hit = Some(harm_cache[Md5Hex(command)].result)
                            /\ req'[c].ret = Some(Ok(harm_cache[Md5Hex(command)].result))
                       ELSE /\ req'[c].pc = "miss"
                            /\ req'[c].hit = None
         /\ (req[c].hit # None /\ req'[c].pc # "idle") =>
                /\ req'[c] = req[c]
                /\ ~req[c].called
         /\ (req[c].pc = "miss" /\ req'[c].pc # "miss"
               /\ ~config.harm_detection_enabled) =>
                /\ req'[c].pc = "ret"
                /\ ~req'[c].called
                /\ req'[c].ret = Some(Ok(HarmResult_default))
         /\ (~req[c].called /\ req'[c].called) =>
                /\ req[c].pc = "miss"
                /\ req[c].hit = None
                /\ config.harm_detection_enabled
      ]_vars

\* A hit is returned while harm detection is disabled, and a request that
\* missed is waiting for the AI client.
C14_Witness ==
    /\ ~config.harm_detection_enabled
    /\ \E c \in Requests :
           /\ req[c].pc = "ret"
           /\ req[c].hit = Some(Harmful)
           /\ ~req[c].called
    /\ \E c \in Requests : req[c].pc = "await" /\ req[c].called

\* C15 as stated: once a request has stored the verdict v the AI client
\* delivered for command c, a lookup of c returns v for as long as the entry is
\* neither expired nor evicted.
C15_Original ==
    \A c \in Requests :
        (req[c].pc = "ret" /\ req[c].reply.class = "verdict"
           /\ HarmFresh(req[c].command)) =>
            Some(harm_cache[Md5Hex(req[c].command)].result) = req[c].reply.verdict

\* C15: a request that received a verdict v for command c stores v under c
\* before it returns, and returns v; from then on a lookup of c returns v until
\* the entry expires or another request stores its own result (which replaces
\* the entry when it is for c, and may evict it when it is not).
C15_StoredBeforeReturn ==
    [][\A c \in Requests :
         LET command == req[c].command
             v == req[c].reply.verdict
         IN  req[c].reply.class = "verdict" =>
                 /\ req[c].pc \in {"store", "ret"}
                 /\ req[c].ret = Some(Ok(v[1]))
                 /\ req'[c].pc = "idle" => req[c].pc = "ret"
                 /\ (req[c].pc = "store" /\ req'[c].pc = "ret") =>
                        HarmCache_get(harm_cache', command, now') = v
                 /\ (req[c].pc = "ret" /\ req'[c].pc = "ret"
                       /\ HarmCache_get(harm_cache, command, now) = v
                       /\ HarmCache_get(harm_cache', command, now') # v) =>
                        \/ now' # now
                        \/ \E other \in Requests \ {c} :
                               /\ req[other].pc = "store"
                               /\ req'[other].pc = "ret"
      ]_vars

\* A request has stored the verdict of the AI client and is about to return;
\* another request for the same command is answered from the cache.
C15_Witness ==
    \E c, later \in Requests :
        /\ req[c].pc = "ret"
        /\ req[c].reply.class = "verdict"
        /\ req[c].reply.verdict = Some(Harmful)
        /\ req[later].pc = "ret"
        /\ req[later].command = req[c].command
        /\ req[later].hit = Some(Harmful)
        /\ ~req[later].called

\* C27 (as stated): the harm cache changes only in the store step of a request
\* whose AI-client call succeeded with a parseable verdict.
C27_Original ==
    [][harm_cache' # harm_cache =>
           \E c \in Requests :
               /\ req[c].pc = "store"
               /\ req'[c].pc = "ret"
               /\ req[c].reply.class = "verdict"]_vars

\* The AI-client call of a request failed, the request is about to return the
\* default verdict, and the cache holds that default under the command, fresh:
\* the next request for the command is answered from the cache.
C27_Witness ==
    \E c \in Requests :
        /\ req[c].op = "harm"
        /\ req[c].pc = "ret"
        /\ req[c].called
        /\ req[c].reply.class = "failed"
        /\ HarmCache_get(harm_cache, req[c].command, now) = Some(HarmResult_default)

\* ---- llm/client.rs: get_completion, and lib.rs: get_suggestion ----

\* Characters written by name: the double quote, the backtick, and e with
\* acute accent (U+00E9, two bytes in UTF-8).
QUOTE == "QUOTE"
BACKTICK == "BACKTICK"
E_ACUTE == "E_ACUTE"

\* The characters of the model that take two bytes in UTF-8.
TwoByteChars == {E_ACUTE}

\* str::len: the length in bytes.
RECURSIVE len(_)
len(s) == IF s = <<>> THEN 0 ELSE (IF Head(s) \in TwoByteChars THEN 2 ELSE 1) + len(Tail(s))

\* str::trim_matches(ch)
RECURSIVE trim_matches(_, _)
trim_matches(s, ch) ==
    IF s # <<>> /\ Head(s) = ch THEN trim_matches(Tail(s), ch)
    ELSE IF s # <<>> /\ s[Len(s)] = ch THEN trim_matches(SubSeq(s, 1, Len(s) - 1), ch)
    ELSE s

Suggestion_default == [completion |-> <<>>, explanation |-> None]

\* client.rs 100-109
CleanCompletion(response) ==
    [completion |-> trim_matches(trim_matches(trim(response), QUOTE), BACKTICK),
     explanation |-> None]

\* client.rs 69-72
MIN_INPUT_LEN == 2
IsShortInput(current_input) == len(trim(current_input)) < MIN_INPUT_LEN

\* The inputs completed: one two-byte letter, one letter between blanks, and
\* two letters.
SuggestInputs == { <<E_ACUTE>>, <<" ", "l", " ">>, <<"g", "i">> }

\* The message texts: a completion, bare and in quotes and backticks between
\* white space.
SuggestReplies == { <<"t">>, <<" ", QUOTE, BACKTICK, "t", BACKTICK, QUOTE, "\n">> }

SuggestOutcomes == { Err(e) : e \in AiErrors } \cup { Ok(text) : text \in SuggestReplies }

TextReplyOf(outcome) ==
    [class |-> IF outcome.ok THEN "text" ELSE "failed", verdict |-> None]

\* The configurations completion requests run under (the one load_config has
\* read): every provider name without a key, and one credentialed provider
\* with a key.
SuggestConfigs ==
    { [AppConfig_default EXCEPT !.provider = name] : name \in ProviderNames }
    \cup { [AppConfig_default EXCEPT !.api_key = <<"s", "k">>] }

\* lib.rs 77-82: the cache lookup, under the cache lock.
SuggestLookup(c, current_input) ==
    /\ req[c].pc = "idle"
    /\ LET cached == SuggestionCache_get(cache, current_input, now)
       IN  req' = [req EXCEPT ![c] =
                     IF cached # None
                     THEN [IdleRequest EXCEPT !.op = "suggest", !.pc = "ret",
                                              !.command = current_input,
                                              !.hit = cached, !.ret = Some(Ok(cached[1]))]
                     ELSE [IdleRequest EXCEPT !.op = "suggest", !.pc = "miss",
                                              !.command = current_input]]
    /\ UNCHANGED <<cacheVars, config>>

\* lib.rs 85-117 and client.rs 59-97.  The configuration is cloned under the
\* config lock; the history and the working directory are read for the prompt
\* and decide nothing.  get_completion checks the key, then the length of the
\* input, builds the HTTP client (built = FALSE: the builder fails) and sends
\* the request.  An Err of get_completion is returned by `?` (lib.rs 117), an
\* Ok goes on to the store.
SuggestCheck(c, built) ==
    /\ req[c].op = "suggest"
    /\ req[c].pc = "miss"
    /\ LET provider == Provider_from_str(config.provider)
       IN  req' = [req EXCEPT ![c] =
                     IF requires_api_key(provider) /\ config.api_key = <<>>
                     THEN [@ EXCEPT !.pc = "ret", !.ret = Some(Err("API key is required"))]
                     ELSE IF IsShortInput(@.command)
                     THEN [@ EXCEPT !.pc = "store", !.ret = Some(Ok(Suggestion_default))]
                     ELSE IF ~built
                     THEN [@ EXCEPT !.pc = "ret", !.ret = Some(Err("builder error"))]
                     ELSE [@ EXCEPT !.pc = "await", !.called = TRUE]]
    /\ UNCHANGED <<cacheVars, config>>

\* client.rs 87-109 and lib.rs 117: the call completes with outcome.
SuggestReply(c, outcome) ==
    /\ req[c].op = "suggest"
    /\ req[c].pc = "await"
    /\ req' = [req EXCEPT ![c] =
                 IF outcome.ok
                 THEN [@ EXCEPT !.pc = "store", !.reply = TextReplyOf(outcome),
                                !.ret = Some(Ok(CleanCompletion(outcome.value)))]
                 ELSE [@ EXCEPT !.pc = "ret", !.reply = TextReplyOf(outcome),
                                !.ret = Some(Err(outcome.error))]]
    /\ UNCHANGED <<cacheVars, config>>

\* lib.rs 120-123: cache.set(&current_input, suggestion), under the cache lock.
SuggestStore(c) ==
    /\ req[c].op = "suggest"
    /\ req[c].pc = "store"
    /\ \E evicted \in SuggestionCache_set_evicted(cache) :
           cache' = SuggestionCache_insert(SuggestionCache_evict_expired(evicted, now),
                                           req[c].command, req[c].ret[1].value, now)
    /\ req' = [req EXCEPT ![c].pc = "ret"]
    /\ UNCHANGED <<now, focus, harm_cache, cache_op, cache_hist, config>>

SuggestNext ==
    \/ Tick("cache")
    \/ \E c \in Requests, current_input \in SuggestInputs : SuggestLookup(c, current_input)
    \/ \E c \in Requests, built \in BOOLEAN : SuggestCheck(c, built)
    \/ \E c \in Requests, outcome \in SuggestOutcomes : SuggestReply(c, outcome)
    \/ \E c \in Requests : SuggestStore(c)
    \/ \E c \in Requests : RequestEnds(c)

\* ---- claims about completion ----

\* The number of characters of s that are not white space.
NonWhitespaceCount(s) == Cardinality({ i \in 1 .. Len(s) : ~IsWhitespace(s[i]) })

KeyMissing == Provider_from_str(config.provider) # "Ollama" /\ config.api_key = <<>>

\* C16: a completion request that missed the cache, under a provider other
\* than the local one and with an empty key, returns an error without calling
\* the AI client and without writing to the suggestion cache (whether or not
\* its input is short).
C16_MissingKeyIsError ==
    [][\A c \in Requests :
         /\ (req[c].op = "suggest" /\ req[c].pc = "miss" /\ req'[c].pc # "miss"
               /\ KeyMissing) =>
                /\ req'[c].pc = "ret"
                /\ ~req'[c].ret[1].ok
                /\ ~req'[c].called
                /\ cache' = cache
         /\ (req[c].op = "suggest" /\ req[c].pc = "ret" /\ ~req[c].ret[1].ok
               /\ req'[c] # req[c]) =>
                /\ req'[c] = IdleRequest
                /\ cache' = cache
      ]_vars

C16_Witness ==
    /\ config.provider = <<"g", "r", "o", "q">>
    /\ \E c \in Requests :
           /\ req[c].op = "suggest"
           /\ req[c].pc = "ret"
           /\ req[c].command = <<"g", "i">>
           /\ req[c].hit = None
           /\ ~req[c].ret[1].ok
           /\ ~req[c].called
    /\ cache = EmptyMap

\* C17: under every configuration, a completion request that missed the cache
\* and whose input has fewer than 2 characters that are not white space
\* returns Ok(Suggestion::default()) and does not call the AI client.
C17_Original ==
    \A c \in Requests :
        (req[c].op = "suggest" /\ req[c].pc \notin {"idle", "miss"} /\ req[c].hit = None
           /\ NonWhitespaceCount(req[c].command) < 2) =>
            /\ ~req[c].called
            /\ ReturnsOk(c, Suggestion_default)

\* What holds: with a usable configuration, an input whose trimmed text is
\* shorter than 2 bytes returns the empty suggestion without a call.
C17_ShortInBytes ==
    \A c \in Requests :
        (req[c].op = "suggest" /\ req[c].pc \notin {"idle", "miss"} /\ req[c].hit = None
           /\ len(trim(req[c].command)) < 2) =>
            /\ ~req[c].called
            /\ KeyMissing \/ ReturnsOk(c, Suggestion_default)

\* A request for a single two-byte letter has called the AI client and waits
\* for it.
C17_Witness ==
    \E c \in Requests :
        /\ req[c].op = "suggest"
        /\ req[c].pc = "await"
        /\ req[c].called
        /\ req[c].hit = None
        /\ req[c].command = <<E_ACUTE>>

\* C18: a completion request whose AI-client call failed returns
\* Ok(Suggestion::default()), and the only error a completion request returns
\* is that of the missing key.
C18_Original ==
    \A c \in Requests :
        req[c].op = "suggest" =>
            /\ req[c].reply.class = "failed" => ReturnsOk(c, Suggestion_default)
            /\ (req[c].ret # None /\ ~req[c].ret[1].ok) => KeyMissing

\* What holds: a failed call is returned as the error it is, and nothing is
\* stored for it.
C18_FailureIsError ==
    \A c \in Requests :
        (req[c].op = "suggest" /\ req[c].reply.class = "failed") =>
            /\ req[c].pc = "ret"
            /\ ~req[c].ret[1].ok
            /\ req[c].ret[1].error \in AiErrors

C18_Witness ==
    \E c \in Requests :
        /\ req[c].op = "suggest"
        /\ req[c].pc = "ret"
        /\ req[c].called
        /\ req[c].reply.class = "failed"
        /\ ~req[c].ret[1].ok
        /\ req[c].ret[1].error = "Request failed"
        /\ ~KeyMissing

\* Concurrent requests for the same inputs, with a provider that needs no key:
\* the AI client answers with one of two completions or fails.
RaceInputs == { <<"g", "i">>, <<"l", "s">> }
RaceOutcomes == { Ok(<<"t">>), Ok(<<"u">>), Err("API error") }
RaceConfig == [AppConfig_default EXCEPT !.provider = <<"O", "l", "l", "a", "m", "a">>]

RaceNext ==
    \/ Tick("cache")
    \/ \E c \in Requests, current_input \in RaceInputs : SuggestLookup(c, current_input)
    \/ \E c \in Requests, built \in BOOLEAN : SuggestCheck(c, built)
    \/ \E c \in Requests, outcome \in RaceOutcomes : SuggestReply(c, outcome)
    \/ \E c \in Requests : SuggestStore(c)
    \/ \E c \in Requests : RequestEnds(c)

\* Request c stores its suggestion for the input k in this step.
StoresFor(c, k) ==
    /\ req[c].op = "suggest"
    /\ req[c].command = k
    /\ req[c].pc = "store"
    /\ req'[c].pc = "ret"

\* C26: the suggestion cache is a map with one entry per input.  A store of a
\* request for the input k leaves under k the suggestion of that request,
\* whatever another request had stored there; a step that is no store for k
\* leaves the entry of k as it is or removes it.  So after two requests for one
\* input have both missed, called the AI client and stored, the entry of the
\* input, if it is still there, is the suggestion of the request that stored
\* last.
C26_LastWriterWins ==
    [][\A k \in RaceInputs :
         IF \E c \in Requests : StoresFor(c, k)
         THEN \E c \in Requests :
                  /\ StoresFor(c, k)
                  /\ k \in DOMAIN cache'
                  /\ cache'[k].suggestion = req[c].ret[1].value
                  /\ cache'[k].created_at = now
         ELSE k \in DOMAIN cache' => (k \in DOMAIN cache /\ cache'[k] = cache[k])
      ]_vars

\* Two requests for one input have both called the AI client, have got
\* different completions and have both stored; the cache holds the suggestion
\* of the second request.
C26_Witness ==
    \E c1, c2 \in Requests :
        /\ c1 # c2
        /\ req[c1].op = "suggest" /\ req[c2].op = "suggest"
        /\ req[c1].command = req[c2].command
        /\ req[c1].called /\ req[c2].called
        /\ req[c1].pc = "ret" /\ req[c2].pc = "ret"
        /\ req[c1].ret[1].ok /\ req[c2].ret[1].ok
        /\ req[c1].ret # req[c2].ret
        /\ req[c1].command \in DOMAIN cache
        /\ cache[req[c1].command].suggestion = req[c2].ret[1].value

\* ---- fep.rs: get_error_fix, and lib.rs: get_error_fix ----

FixSuggestion_default ==
    [fixed_command |-> "", explanation |-> "Unable to suggest a fix.", confidence |-> "low"]

GitPushFix ==
    [fixed_command |-> "git push --set-upstream origin main",
     explanation |-> "The branch has no upstream.", confidence |-> "high"]

FixSuggestions == { FixSuggestion_default, GitPushFix }

\* fep.rs 118: the number of bytes of the output that go into the prompt.  It
\* stands for 2000, scaled down so that outputs longer than it are reached.
PromptOutputMax == 2

\* str::is_char_boundary(index), for 0 <= index <= len(s).
RECURSIVE is_char_boundary(_, _)
is_char_boundary(s, index) ==
    IF index = 0 \/ s = <<>> THEN index = 0
    ELSE LET n == len(<<Head(s)>>)
         IN  IF index < n THEN FALSE ELSE is_char_boundary(Tail(s), index - n)

\* fep.rs 118-122: &ctx.output[..2000] panics when the index is inside a
\* character.
PromptPanics(error_output) ==
    len(error_output) > PromptOutputMax /\ ~is_char_boundary(error_output, PromptOutputMax)

parse_fep_response(response) ==
    IF from_str(response, FixSuggestions) # None
    THEN Returned(from_str(response, FixSuggestions)[1])
    ELSE LET json_str == BraceSlice(response)
         IN  IF json_str.kind = "panic" THEN Panicked
             ELSE IF json_str.kind = "slice" /\ from_str(json_str.text, FixSuggestions) # None
                  THEN Returned(from_str(json_str.text, FixSuggestions)[1])
                  ELSE Returned(FixSuggestion_default)

\* The message texts: a fix, a fix inside prose, prose, an object that is no
\* fix, and braces in prose with the closing one first.
FixReplies ==
    { <<Obj(GitPushFix)>>, <<Txt, Obj(GitPushFix), Txt>>, <<Txt>>, <<OtherObj>>,
      <<CloseBrace, Txt, OpenBrace>> }

FixOutcomes == { Err(e) : e \in AiErrors } \cup { Ok(text) : text \in FixReplies }

\* The outputs of the failed command: short, long, and long with a two-byte
\* character across the cut.
FixOutputs == { <<"a">>, <<"a", "b", "c">>, <<"a", E_ACUTE, "b">> }

\* lib.rs 278-307 and fep.rs 42-72.  The configuration is cloned under the
\* config lock; history and working directory go into the prompt and decide
\* nothing.  fep::get_error_fix checks the key, builds the HTTP client (built =
\* FALSE: the builder fails), builds the prompt and sends the request.  The
\* request keeps the output as its argument.
FixStart(c, error_output, built) ==
    /\ req[c].pc = "idle"
    /\ LET provider == Provider_from_str(config.provider)
           started == [IdleRequest EXCEPT !.op = "fix", !.command = error_output]
       IN  req' = [req EXCEPT ![c] =
                     IF requires_api_key(provider) /\ config.api_key = <<>>
                     THEN [started EXCEPT !.pc = "ret",
                                          !.ret = Some(Err("API key is required"))]
                     ELSE IF ~built
                     THEN [started EXCEPT !.pc = "ret", !.ret = Some(Err("builder error"))]
                     ELSE IF PromptPanics(error_output)
                     THEN [started EXCEPT !.pc = "panicked"]
                     ELSE [started EXCEPT !.pc = "await", !.called = TRUE]]
    /\ UNCHANGED <<cacheVars, config>>

\* fep.rs 62-74 and lib.rs 307: the call completes with outcome.
FixReply(c, outcome) ==
    /\ req[c].op = "fix"
    /\ req[c].pc = "await"
    /\ LET result == IF outcome.ok THEN parse_fep_response(outcome.value) ELSE Panicked
       IN  req' = [req EXCEPT ![c] =
                     IF ~outcome.ok
                     THEN [@ EXCEPT !.pc = "ret", !.reply = ReplyOf(outcome),
                                    !.ret = Some(Err(outcome.error))]
                     ELSE IF result.panicked
                     THEN [@ EXCEPT !.pc = "panicked", !.reply = ReplyOf(outcome)]
                     ELSE [@ EXCEPT !.pc = "ret", !.reply = ReplyOf(outcome),
                                    !.ret = Some(Ok(result.value))]]
    /\ UNCHANGED <<cacheVars, config>>

FixNext ==
    \/ \E new_config \in SuggestConfigs : SetConfig(new_config)
    \/ \E c \in Requests, error_output \in FixOutputs, built \in BOOLEAN :
           FixStart(c, error_output, built)
    \/ \E c \in Requests, outcome \in FixOutcomes : FixReply(c, outcome)
    \/ \E c \in Requests : RequestEnds(c)

\* ---- claims about error fixes ----

\* C19: a fix request whose AI-client call failed, or delivered a text that
\* holds no structured fix, returns Ok(FixSuggestion::default()): an empty
\* fixed command with low confidence, and no error.
C19_Original ==
    \A c \in Requests :
        (req[c].op = "fix" /\ req[c].reply.class \in {"failed", "unparseable"}) =>
            /\ ReturnsOk(c, FixSuggestion_default)
            /\ req[c].ret[1].value.fixed_command = ""
            /\ req[c].ret[1].value.confidence = "low"

\* What holds: a failed call is returned as the error it is; a text without a
\* fix gives the default unless its first '{' lies behind its last '}'.
C19_FailureIsError ==
    \A c \in Requests :
        req[c].op = "fix" =>
            /\ req[c].reply.class = "failed" =>
                   /\ req[c].pc = "ret"
                   /\ ~req[c].ret[1].ok
                   /\ req[c].ret[1].error \in AiErrors
            /\ req[c].reply.class = "unparseable" =>
                   req[c].pc = "panicked" \/ ReturnsOk(c, FixSuggestion_default)

C19_Witness ==
    \E c \in Requests :
        /\ req[c].op = "fix"
        /\ req[c].pc = "ret"
        /\ req[c].called
        /\ req[c].reply.class = "failed"
        /\ ~req[c].ret[1].ok
        /\ req[c].ret[1].error = "API error"

\* ---- lib.rs: add_to_history ----

\* The cap on the history.  It stands for the 100 of lib.rs 134, scaled down so
\* that a full history and additions to it are reached.
HistoryCap == 2
HISTORY_MAX == HistoryCap

\* The add_to_history calls of a run.
MaxAdds == 4

HistCommands == {"ls", "cd .."}

Vec_remove_Last(v, index) == SubSeq(v, 1, Len(v) - 1)

\* Vec::remove(index), index counted from 0: the later elements shift down.
Vec_remove(v, index) == SubSeq(v, 1, index) \o SubSeq(v, index + 2, Len(v))

HistInit ==
    /\ command_history = <<>>
    /\ hist_lock = Unlocked
    /\ added = <<>>

\* lib.rs 130: state.command_history.lock()
HistLock(c, command) ==
    /\ req[c].pc = "idle"
    /\ Len(added) < MaxAdds
    /\ hist_lock = Unlocked
    /\ hist_lock' = c
    /\ req' = [req EXCEPT ![c] =
                 [IdleRequest EXCEPT !.op = "add_to_history", !.pc = "push",
                                     !.command = command]]
    /\ UNCHANGED <<command_history, added, cacheVars, config>>

\* lib.rs 131: history.push(command)
HistPush(c) ==
    /\ req[c].op = "add_to_history"
    /\ req[c].pc = "push"
    /\ command_history' = Append(command_history, req[c].command)
    /\ added' = Append(added, req[c].command)
    /\ req' = [req EXCEPT ![c].pc = "trim"]
    /\ UNCHANGED <<hist_lock, cacheVars, config>>

\* lib.rs 134-136: if history.len() > 100 { history.remove(0); }
HistTrim(c) ==
    /\ req[c].op = "add_to_history"
    /\ req[c].pc = "trim"
    /\ command_history' = IF Len(command_history) > HISTORY_MAX
                          THEN Vec_remove(command_history, 0)
                          ELSE command_history
    /\ req' = [req EXCEPT ![c].pc = "unlock"]
    /\ UNCHANGED <<hist_lock, added, cacheVars, config>>

\* lib.rs 138-139: Ok(()); the guard is dropped.
HistReturn(c) ==
    /\ req[c].op = "add_to_history"
    /\ req[c].pc = "unlock"
    /\ hist_lock' = Unlocked
    /\ req' = [req EXCEPT ![c] = IdleRequest]
    /\ UNCHANGED <<command_history, added, cacheVars, config>>

HistNext ==
    \/ \E c \in Requests, command \in HistCommands : HistLock(c, command)
    \/ \E c \in Requests : HistPush(c)
    \/ \E c \in Requests : HistTrim(c)
    \/ \E c \in Requests : HistReturn(c)

\* ---- claims about the history ----

\* The last n elements of s.
LastN(s, n) == SubSeq(s, Len(s) - n + 1, Len(s))

\* C20: whenever no add_to_history call is inside its critical section, the
\* history holds at most HISTORY_MAX entries and is the sequence of the most
\* recent min(n, HISTORY_MAX) commands added, in the order they were added.
C20_HistoryIsRecent ==
    hist_lock = Unlocked =>
        /\ Len(command_history) <= HISTORY_MAX
        /\ command_history = LastN(added, Min(Len(added), HISTORY_MAX))

\* More commands than the cap have been added, of both kinds, and no call is in
\* progress.
C20_Witness ==
    /\ hist_lock = Unlocked
    /\ Len(added) > HISTORY_MAX + 1
    /\ Len(command_history) = HISTORY_MAX
    /\ added[1] # added[Len(added)]

\* ---- lib.rs: record_command_result and get_last_error ----

\* The cap on the stored output, in bytes.  It stands for the 10240 of lib.rs
\* 262-263, scaled down so that outputs longer than it are reached.
OutputMax == 2

\* &s[..n].to_string(), for n a character boundary of s: the characters that
\* lie in the first n bytes.
RECURSIVE str_prefix(_, _)
str_prefix(s, n) ==
    IF n = 0 \/ s = <<>> THEN <<>>
    ELSE <<Head(s)>> \o str_prefix(Tail(s), n - len(<<Head(s)>>))

\* lib.rs 262-266: the value assigned to *last_out.  The slice output[..10240]
\* panics when byte 10240 is inside a character.
LimitOutput(s) ==
    IF len(s) > OutputMax
    THEN IF is_char_boundary(s, OutputMax) THEN Returned(str_prefix(s, OutputMax)) ELSE Panicked
    ELSE Returned(s)

\* The arguments of the record_command_result calls: a success whose output is
\* exactly at the cap, a failure with a short output, a failure whose output is
\* over the cap, and a failure whose output is over the cap with a two-byte
\* character across it.
RecordInputs ==
    { [command |-> "ls", exit_code |-> 0, output |-> <<"o", "k">>],
      [command |-> "cd x", exit_code |-> 1, output |-> <<"n">>],
      [command |-> "cc", exit_code |-> 2, output |-> <<"a", "b", "c">>],
      [command |-> "cat", exit_code |-> 3, output |-> <<"a", E_ACUTE>>] }

\* The locals of a handler that has not been called.
IdleCall ==
    [op |-> "none", pc |-> "idle", input |-> None,
     command |-> None, exit_code |-> None, output |-> <<>>, ret |-> None]

\* lib.rs 421-423: last_command, last_exit_code, last_output as constructed.
FepInit ==
    /\ last_command = None
    /\ last_exit_code = None
    /\ last_output = <<>>
    /\ last_output_poisoned = FALSE
    /\ fep_call = [c \in Requests |-> IdleCall]

\* lib.rs 251-254: *last_cmd = Some(command), under the last_command lock.
RecordCommand(c, input) ==
    /\ fep_call[c].pc = "idle"
    /\ last_command' = Some(input.command)
    /\ fep_call' = [fep_call EXCEPT ![c] =
                      [IdleCall EXCEPT !.op = "record_command_result", !.pc = "exit_code",
                                       !.input = Some(input)]]
    /\ UNCHANGED <<last_exit_code, last_output, last_output_poisoned>>

\* lib.rs 255-258: *last_exit = Some(exit_code), under the last_exit_code lock.
RecordExitCode(c) ==
    /\ fep_call[c].op = "record_command_result"
    /\ fep_call[c].pc = "exit_code"
    /\ last_exit_code' = Some(fep_call[c].input[1].exit_code)
    /\ fep_call' = [fep_call EXCEPT ![c].pc = "output"]
    /\ UNCHANGED <<last_command, last_output, last_output_poisoned>>

\* lib.rs 259-268: under the last_output lock, the output is stored, cut to the
\* cap.  A panic in the slice unwinds with the guard held and poisons the
\* mutex; lock() on a poisoned mutex is an Err, which the handler returns.
RecordOutput(c) ==
    /\ fep_call[c].op = "record_command_result"
    /\ fep_call[c].pc = "output"
    /\ LET limited == LimitOutput(fep_call[c].input[1].output)
       IN  IF last_output_poisoned
           THEN /\ fep_call' = [fep_call EXCEPT ![c].pc = "ret",
                                                ![c].ret = Some(Err("poisoned lock"))]
                /\ UNCHANGED <<last_output, last_output_poisoned>>
           ELSE IF limited.panicked
           THEN /\ last_output_poisoned' = TRUE
                /\ fep_call' = [fep_call EXCEPT ![c].pc = "panicked"]
                /\ UNCHANGED last_output
           ELSE /\ last_output' = limited.value
                /\ fep_call' = [fep_call EXCEPT ![c].pc = "ret", ![c].ret = Some(Ok(None))]
                /\ UNCHANGED last_output_poisoned
    /\ UNCHANGED <<last_command, last_exit_code>>

\* lib.rs 314-317: cmd.clone(), under the last_command lock.
GetCommand(c) ==
    /\ fep_call[c].pc = "idle"
    /\ fep_call' = [fep_call EXCEPT ![c] =
                      [IdleCall EXCEPT !.op = "get_last_error", !.pc = "exit_code",
                                       !.command = last_command]]
    /\ UNCHANGED <<last_command, last_exit_code, last_output, last_output_poisoned>>

\* lib.rs 319-322: *code, under the last_exit_code lock.
GetExitCode(c) ==
    /\ fep_call[c].op = "get_last_error"
    /\ fep_call[c].pc = "exit_code"
    /\ fep_call' = [fep_call EXCEPT ![c].pc = "output", ![c].exit_code = last_exit_code]
    /\ UNCHANGED <<last_command, last_exit_code, last_output, last_output_poisoned>>

\* The fields of fep::ErrorContext that come from the last-error fields.  The
\* history and the working directory are cloned from state that neither handler
\* writes.
ErrorContext(command, exit_code, error_output) ==
    [command |-> command, exit_code |-> exit_code, output |-> error_output]

\* lib.rs 324-357: out.clone() under the last_output lock, an Err when the
\* mutex is poisoned; then the history and the working directory are cloned and
\* the match on (command, exit_code) makes the result.
GetOutput(c) ==
    /\ fep_call[c].op = "get_last_error"
    /\ fep_call[c].pc = "output"
    /\ LET command == fep_call[c].command
           exit_code == fep_call[c].exit_code
       IN  fep_call' = [fep_call EXCEPT
             ![c].pc = "ret",
             ![c].output = IF last_output_poisoned THEN <<>> ELSE last_output,
             ![c].ret =
                 IF last_output_poisoned THEN Some(Err("poisoned lock"))
                 ELSE IF command # None /\ exit_code # None /\ exit_code[1] # 0
                      THEN Some(Ok(Some(ErrorContext(command[1], exit_code[1], last_output))))
                      ELSE Some(Ok(None))]
    /\ UNCHANGED <<last_command, last_exit_code, last_output, last_output_poisoned>>

\* The handler has returned, or its task has ended with the panic.
CallEnds(c) ==
    /\ fep_call[c].pc \in {"ret", "panicked"}
    /\ fep_call' = [fep_call EXCEPT ![c] = IdleCall]
    /\ UNCHANGED <<last_command, last_exit_code, last_output, last_output_poisoned>>

FepNext ==
    \/ \E c \in Requests, input \in RecordInputs : RecordCommand(c, input)
    \/ \E c \in Requests : RecordExitCode(c)
    \/ \E c \in Requests : RecordOutput(c)
    \/ \E c \in Requests : GetCommand(c)
    \/ \E c \in Requests : GetExitCode(c)
    \/ \E c \in Requests : GetOutput(c)
    \/ \E c \in Requests : CallEnds(c)

\* ---- claims about the last error ----

\* A get_last_error call of request c has returned.
GotLastError(c) ==
    /\ fep_call[c].op = "get_last_error"
    /\ fep_call[c].pc = "ret"

\* The result of request c is a failed-command context.
ReturnsContext(c) ==
    /\ fep_call[c].ret[1].ok
    /\ fep_call[c].ret[1].value # None

\* C21 (as stated): get_last_error returns a failed-command context exactly
\* when, at the moment it read the exit code, a result had been recorded and the
\* most recently recorded exit code was not zero.
C21_Original ==
    \A c \in Requests :
        GotLastError(c) =>
            (ReturnsContext(c) <=>
                /\ fep_call[c].command # None
                /\ fep_call[c].exit_code # None
                /\ fep_call[c].exit_code[1] # 0)

\* A get_last_error call read a recorded command and a non-zero exit code and
\* returned an error: an earlier record_command_result call panicked under the
\* last_output lock.
C21_Witness ==
    \E c \in Requests :
        /\ GotLastError(c)
        /\ fep_call[c].command # None
        /\ fep_call[c].exit_code # None
        /\ fep_call[c].exit_code[1] # 0
        /\ ~fep_call[c].ret[1].ok
        /\ last_output_poisoned

\* C22 (as stated): a record_command_result call that has reached the output
\* succeeds, and the stored output is never longer than the cap.
C22_Original ==
    /\ len(last_output) <= OutputMax
    /\ \A c \in Requests :
           (fep_call[c].op = "record_command_result" /\ fep_call[c].pc \in {"ret", "panicked"})
               => (fep_call[c].pc = "ret" /\ fep_call[c].ret[1].ok)

\* A record_command_result call whose output is over the cap, with a character
\* across the cap, has panicked.
C22_Witness ==
    \E c \in Requests :
        /\ fep_call[c].op = "record_command_result"
        /\ fep_call[c].pc = "panicked"
        /\ len(fep_call[c].input[1].output) > OutputMax
        /\ ~is_char_boundary(fep_call[c].input[1].output, OutputMax)

\* What a record_command_result call with the arguments input stores, when it
\* does not panic.
StoredBy(input) ==
    ErrorContext(input.command, input.exit_code, LimitOutput(input.output).value)

\* C28 (as stated): the command, exit code and output of a returned context
\* all come from one record_command_result call.
C28_Original ==
    \A c \in Requests :
        GotLastError(c) /\ ReturnsContext(c) =>
            \E input \in RecordInputs :
                /\ ~LimitOutput(input.output).panicked
                /\ fep_call[c].ret[1].value[1] = StoredBy(input)

\* A returned context holds the command of one call and the exit code of
\* another, both of which returned Ok.
C28_Witness ==
    \E c \in Requests :
        /\ GotLastError(c)
        /\ ReturnsContext(c)
        /\ ~last_output_poisoned
        /\ LET ctx == fep_call[c].ret[1].value[1]
           IN  \E i1, i2 \in RecordInputs :
                   /\ i1 # i2
                   /\ ctx.command = i1.command
                   /\ ctx.exit_code = i2.exit_code

\* ---- lib.rs: set_config and toggle_safeguards; config.rs: save_config ----

\* The arguments of set_config.
NewConfigs == { AppConfig_default, [AppConfig_default EXCEPT !.api_key = <<"s", "k">>] }

\* lib.rs 413: the configuration is the one loaded from the file, or the
\* default; the file holds what was last saved.
CfgInit ==
    /\ config_lock = Unlocked
    /\ config_file = AppConfig_default
    /\ config_at_lock = AppConfig_default

\* lib.rs 149-150: under the config lock, *config = new_config.clone().
SetConfigAssign(c, new_config) ==
    /\ req[c].pc = "idle"
    /\ config_lock = Unlocked
    /\ config_lock' = c
    /\ config_at_lock' = config
    /\ config' = new_config
    /\ req' = [req EXCEPT ![c] = [IdleRequest EXCEPT !.op = "set_config", !.pc = "save"]]
    /\ UNCHANGED <<config_file, cacheVars>>

\* lib.rs 231-232: under the config lock, config.safeguards_enabled = enabled.
ToggleAssign(c, enabled) ==
    /\ req[c].pc = "idle"
    /\ config_lock = Unlocked
    /\ config_lock' = c
    /\ config_at_lock' = config
    /\ config' = [config EXCEPT !.safeguards_enabled = enabled]
    /\ req' = [req EXCEPT ![c] = [IdleRequest EXCEPT !.op = "toggle_safeguards", !.pc = "save"]]
    /\ UNCHANGED <<config_file, cacheVars>>

\* config.rs 74-79, called at lib.rs 151 and 233 with the configuration just
\* assigned, the config guard still held: the file is written (written = TRUE)
\* or serialization or fs::write fails.  The handlers return the error with
\* `?` (lib.rs 151, 233) and assign nothing after the save.
ConfigSave(c, written) ==
    /\ req[c].op \in {"set_config", "toggle_safeguards"}
    /\ req[c].pc = "save"
    /\ config_file' = IF written THEN config ELSE config_file
    /\ req' = [req EXCEPT ![c].pc = "ret",
                          ![c].ret = Some(IF written THEN Ok(None) ELSE Err("save_config failed"))]
    /\ UNCHANGED <<config, config_lock, config_at_lock, cacheVars>>

\* lib.rs 152-153, 234-235: the handler returns and the guard is dropped.
ConfigReturn(c) ==
    /\ req[c].op \in {"set_config", "toggle_safeguards"}
    /\ req[c].pc = "ret"
    /\ config_lock' = Unlocked
    /\ req' = [req EXCEPT ![c] = IdleRequest]
    /\ UNCHANGED <<config, config_file, config_at_lock, cacheVars>>

ConfigNext ==
    \/ \E c \in Requests, new_config \in NewConfigs : SetConfigAssign(c, new_config)
    \/ \E c \in Requests, enabled \in BOOLEAN : ToggleAssign(c, enabled)
    \/ \E c \in Requests, written \in BOOLEAN : ConfigSave(c, written)
    \/ \E c \in Requests : ConfigReturn(c)

\* ---- claims about the configuration ----

\* A set_config or toggle_safeguards call of request c is about to return an
\* error.
SaveFailed(c) ==
    /\ req[c].op \in {"set_config", "toggle_safeguards"}
    /\ req[c].pc = "ret"
    /\ ~req[c].ret[1].ok

\* C29 (as stated): a set_config or toggle_safeguards call whose save fails
\* returns an error and leaves the configuration in memory as it was when the
\* call took the lock.
C29_Original ==
    \A c \in Requests :
        SaveFailed(c) => config = config_at_lock

\* A toggle_safeguards call is about to return the error of the save, and the
\* configuration in memory is neither the one before the call nor the one in
\* the file.
C29_Witness ==
    \E c \in Requests :
        /\ SaveFailed(c)
        /\ req[c].op = "toggle_safeguards"
        /\ config # config_at_lock
        /\ config # config_file

(***************************************************************************)
(* The locks of AppState (lib.rs 14-24) and where each handler takes them   *)
(***************************************************************************)

LockNames ==
    {"pty_manager", "config", "cache", "harm_cache", "command_history", "usage_stats",
     "last_command", "last_exit_code", "last_output"}

\* The steps of a handler that matter to the locks: taking a lock, dropping its
\* guard, awaiting the AI client, and blocking input or output.  exit: the
\* handler may return right after the step (a cache hit, an Err returned by
\* `?`), dropping the guards it holds; skip: the step is inside an `if` and may
\* be left out.
Lock(name) == [do |-> "lock", on |-> name, exit |-> FALSE, skip |-> FALSE]
Unlock(name) == [do |-> "unlock", on |-> name, exit |-> FALSE, skip |-> FALSE]
UnlockOrReturn(name) == [do |-> "unlock", on |-> name, exit |-> TRUE, skip |-> FALSE]
Await == [do |-> "ai", on |-> "ai_client", exit |-> TRUE, skip |-> FALSE]
Io(what) == [do |-> "io", on |-> what, exit |-> TRUE, skip |-> FALSE]
IoIf(what) == [do |-> "io", on |-> what, exit |-> TRUE, skip |-> TRUE]

\* { let guard = state.<name>.lock()?; ... }: a block that takes one lock,
\* reads or writes what it guards, and drops the guard.
Guarded(name) == <<Lock(name), Unlock(name)>>

\* lib.rs 26-36: PtyManager::new spawns the shell, under the pty_manager guard.
spawn_shell == <<Lock("pty_manager"), IoIf("spawn"), Unlock("pty_manager")>>

\* lib.rs 38-47: manager.write writes to the pseudo-terminal, under the guard.
write_to_pty == <<Lock("pty_manager"), IoIf("pty_write"), Unlock("pty_manager")>>

\* lib.rs 49-58, 60-69, 155-166, 168-177
read_from_pty == Guarded("pty_manager")
resize_pty == Guarded("pty_manager")
get_cwd == Guarded("pty_manager")
is_pty_ready == Guarded("pty_manager")

get_suggestion_NestedLocks ==
    <<Lock("cache"), Lock("config"), Unlock("config"), UnlockOrReturn("cache"), Await>>
    \o Guarded("cache")

\* lib.rs 71-126
get_suggestion ==
    <<Lock("cache"), UnlockOrReturn("cache")>>
    \o Guarded("config") \o Guarded("command_history") \o Guarded("pty_manager")
    \o <<Await>>
    \o Guarded("cache")

\* lib.rs 128-139, 141-145
add_to_history == Guarded("command_history")
get_config == Guarded("config")

\* lib.rs 147-153: save_config writes the file, under the config guard.
set_config == <<Lock("config"), Io("config_file"), Unlock("config")>>

\* lib.rs 181-213
check_command_harm ==
    <<Lock("harm_cache"), UnlockOrReturn("harm_cache"), Lock("config"), UnlockOrReturn("config"),
      Await>>
    \o Guarded("harm_cache")

\* lib.rs 217-224, 226-235
check_safeguard == Guarded("config")
toggle_safeguards == <<Lock("config"), Io("config_file"), Unlock("config")>>

\* lib.rs 244-269
record_command_result ==
    Guarded("last_command") \o Guarded("last_exit_code") \o Guarded("last_output")

\* lib.rs 271-308
get_error_fix ==
    Guarded("config") \o Guarded("command_history") \o Guarded("pty_manager") \o <<Await>>

\* lib.rs 310-357
get_last_error ==
    Guarded("last_command") \o Guarded("last_exit_code") \o Guarded("last_output")
    \o Guarded("command_history") \o Guarded("pty_manager")

\* lib.rs 361-367, 369-379
get_usage_stats == Guarded("usage_stats")
clear_usage_stats == Guarded("usage_stats") \o <<Io("usage_file")>>

\* lib.rs 381-403: the guard taken at line 399 lives to the end of the
\* function, so save_usage writes the file under it.
record_api_usage ==
    Guarded("config") \o Guarded("usage_stats")
    \o <<Lock("usage_stats"), Io("usage_file"), Unlock("usage_stats")>>

\* lib.rs 431-456: the handlers (get_dangerous_patterns takes no lock).
Handlers ==
    [spawn_shell |-> spawn_shell, write_to_pty |-> write_to_pty,
     read_from_pty |-> read_from_pty, resize_pty |-> resize_pty,
     get_suggestion |-> get_suggestion, add_to_history |-> add_to_history,
     get_config |-> get_config, set_config |-> set_config, get_cwd |-> get_cwd,
     is_pty_ready |-> is_pty_ready, check_command_harm |-> check_command_harm,
     check_safeguard |-> check_safeguard, toggle_safeguards |-> toggle_safeguards,
     record_command_result |-> record_command_result, get_error_fix |-> get_error_fix,
     get_last_error |-> get_last_error, get_usage_stats |-> get_usage_stats,
     clear_usage_stats |-> clear_usage_stats, record_api_usage |-> record_api_usage]

\* Nothing is running in the task.
NoHandler == [handler |-> "none", at |-> 0]

LockInit ==
    /\ lock_owner = [name \in LockNames |-> Unlocked]
    /\ task = [c \in Requests |-> NoHandler]

\* The step task c is at: the next one it executes.  A task at an "ai" or "io"
\* step is inside the call.
Running(c) == task[c].handler # "none"
Steps(c) == Handlers[task[c].handler]
AtEnd(c) == task[c].at > Len(Steps(c))
NextStep(c) == Steps(c)[task[c].at]

\* The locks task c holds.
Held(c) == { name \in LockNames : lock_owner[name] = c }

\* The front end invokes a handler; tauri runs it as a task.
Invoke(c, handler) ==
    /\ ~Running(c)
    /\ task' = [task EXCEPT ![c] = [handler |-> handler, at |-> 1]]
    /\ UNCHANGED lock_owner

\* Whether task c can execute its next step: Mutex::lock blocks while another
\* task holds the guard.
CanStep(c) ==
    /\ Running(c)
    /\ ~AtEnd(c)
    /\ NextStep(c).do = "lock" => lock_owner[NextStep(c).on] = Unlocked

StepOf(c) ==
    /\ CanStep(c)
    /\ lock_owner' =
         CASE NextStep(c).do = "lock" -> [lock_owner EXCEPT ![NextStep(c).on] = c]
           [] NextStep(c).do = "unlock" -> [lock_owner EXCEPT ![NextStep(c).on] = Unlocked]
           [] OTHER -> lock_owner
    /\ task' = [task EXCEPT ![c].at = @ + 1]

\* The step is inside an `if` whose condition is false.
SkipStep(c) ==
    /\ Running(c)
    /\ ~AtEnd(c)
    /\ NextStep(c).skip
    /\ task' = [task EXCEPT ![c].at = @ + 1]
    /\ UNCHANGED lock_owner

\* The handler returns, at its end or right after a step it may return from;
\* the guards it holds are dropped.
Return(c) ==
    /\ Running(c)
    /\ \/ AtEnd(c)
       \/ task[c].at > 1 /\ Steps(c)[task[c].at - 1].exit
    /\ lock_owner' = [name \in LockNames |->
                        IF lock_owner[name] = c THEN Unlocked ELSE lock_owner[name]]
    /\ task' = [task EXCEPT ![c] = NoHandler]

LockNext ==
    \/ \E c \in Requests, handler \in DOMAIN Handlers : Invoke(c, handler)
    \/ \E c \in Requests : StepOf(c)
    \/ \E c \in Requests : SkipStep(c)
    \/ \E c \in Requests : Return(c)

\* ---- claims about the locks ----

\* Task c is inside a call of the kind do.
Inside(c, do) == Running(c) /\ ~AtEnd(c) /\ NextStep(c).do = do

C25_Original ==
    \A c \in Requests : Inside(c, "io") => Held(c) = {}

\* A set_config call is inside the write of the configuration file with the
\* config lock held, while a record_api_usage call is inside the write of the
\* usage file with the usage_stats lock held.
C25_Witness ==
    \E c, other \in Requests :
        /\ task[c].handler = "set_config"
        /\ Inside(c, "io")
        /\ Held(c) = {"config"}
        /\ task[other].handler = "record_api_usage"
        /\ Inside(other, "io")
        /\ Held(other) = {"usage_stats"}

\* ---- specifications ----

InitCache == CacheInit /\ GuardIdle /\ PtyInit /\ OrchInit /\ HistInit /\ LockInit /\ CfgInit /\ FepInit

SpecCache == InitCache /\ [][CacheNext /\ UNCHANGED <<guardVars, ptyVars, orchVars, histVars, fepVars, cfgVars, lockVars>>]_vars

InitGuard == CacheInit /\ focus = "cache" /\ GuardInit /\ PtyInit /\ OrchInit /\ HistInit /\ LockInit /\ CfgInit /\ FepInit

SpecGuard == InitGuard /\ [][GuardNext /\ UNCHANGED <<cacheVars, ptyVars, orchVars, histVars, fepVars, cfgVars, lockVars>>]_vars

InitPty == CacheInit /\ focus = "cache" /\ GuardIdle /\ PtyInit /\ OrchInit /\ HistInit /\ LockInit /\ CfgInit /\ FepInit

SpecPty == InitPty /\ [][PtyNext /\ UNCHANGED <<cacheVars, guardVars, orchVars, histVars, fepVars, cfgVars, lockVars>>]_vars

SpecPtyLive ==
    /\ InitPty
    /\ [][PtyLiveNext /\ UNCHANGED <<cacheVars, guardVars, orchVars, histVars, fepVars, cfgVars, lockVars>>]_vars
    /\ PtyFairness

InitHarm == CacheInit /\ focus = "harm_cache" /\ GuardIdle /\ PtyInit /\ OrchInit /\ HistInit /\ LockInit /\ CfgInit /\ FepInit

SpecHarm == InitHarm /\ [][HarmNext /\ UNCHANGED <<guardVars, ptyVars, histVars, fepVars, cfgVars, lockVars>>]_vars

InitSuggest ==
    /\ CacheInit /\ focus = "cache" /\ GuardIdle /\ PtyInit
    /\ config \in SuggestConfigs
    /\ req = [c \in Requests |-> IdleRequest]
    /\ HistInit /\ LockInit /\ CfgInit /\ FepInit

SpecSuggest == InitSuggest /\ [][SuggestNext /\ UNCHANGED <<guardVars, ptyVars, histVars, fepVars, cfgVars, lockVars>>]_vars

InitRace ==
    /\ CacheInit /\ focus = "cache" /\ GuardIdle /\ PtyInit
    /\ config = RaceConfig
    /\ req = [c \in Requests |-> IdleRequest]
    /\ HistInit /\ LockInit /\ CfgInit /\ FepInit

SpecRace == InitRace /\ [][RaceNext /\ UNCHANGED <<guardVars, ptyVars, histVars, fepVars, cfgVars, lockVars>>]_vars

InitFix == CacheInit /\ focus = "cache" /\ GuardIdle /\ PtyInit /\ OrchInit /\ HistInit /\ LockInit /\ CfgInit /\ FepInit

SpecFix == InitFix /\ [][FixNext /\ UNCHANGED <<guardVars, ptyVars, histVars, fepVars, cfgVars, lockVars>>]_vars

InitHist == CacheInit /\ focus = "cache" /\ GuardIdle /\ PtyInit /\ OrchInit /\ HistInit /\ LockInit /\ CfgInit /\ FepInit

SpecHist == InitHist /\ [][HistNext /\ UNCHANGED <<guardVars, ptyVars, fepVars, cfgVars, lockVars>>]_vars

InitFep == CacheInit /\ focus = "cache" /\ GuardIdle /\ PtyInit /\ OrchInit /\ HistInit /\ LockInit /\ CfgInit /\ FepInit

SpecFep == InitFep /\ [][FepNext /\ UNCHANGED <<cacheVars, guardVars, ptyVars, orchVars, histVars, cfgVars, lockVars>>]_vars

InitConfig ==
    /\ CacheInit /\ focus = "cache" /\ GuardIdle /\ PtyInit /\ OrchInit /\ HistInit /\ LockInit /\ FepInit
    /\ CfgInit

SpecConfig == InitConfig /\ [][ConfigNext /\ UNCHANGED <<guardVars, ptyVars, histVars, fepVars, lockVars>>]_vars

InitLocks ==
    /\ CacheInit /\ focus = "cache" /\ GuardIdle /\ PtyInit /\ OrchInit /\ HistInit /\ FepInit
    /\ CfgInit /\ LockInit

SpecLocks ==
    /\ InitLocks
    /\ [][LockNext /\ UNCHANGED <<cacheVars, guardVars, ptyVars, orchVars, histVars, fepVars,
                                  cfgVars>>]_vars

Init == CacheInit /\ GuardInit /\ PtyInit /\ OrchInit /\ HistInit /\ LockInit /\ CfgInit /\ FepInit

Next ==
    \/ CacheNext /\ UNCHANGED <<guardVars, ptyVars, orchVars, histVars, fepVars, cfgVars, lockVars>>
    \/ GuardNext /\ UNCHANGED <<cacheVars, ptyVars, orchVars, histVars, fepVars, cfgVars, lockVars>>
    \/ PtyNext /\ UNCHANGED <<cacheVars, guardVars, orchVars, histVars, fepVars, cfgVars, lockVars>>
    \/ HarmNext /\ UNCHANGED <<guardVars, ptyVars, histVars, fepVars, cfgVars, lockVars>>
    \/ SuggestNext /\ UNCHANGED <<guardVars, ptyVars, histVars, fepVars, cfgVars, lockVars>>
    \/ RaceNext /\ UNCHANGED <<guardVars, ptyVars, histVars, fepVars, cfgVars, lockVars>>
    \/ FixNext /\ UNCHANGED <<guardVars, ptyVars, histVars, fepVars, cfgVars, lockVars>>
    \/ HistNext /\ UNCHANGED <<guardVars, ptyVars, fepVars, cfgVars, lockVars>>
    \/ FepNext /\ UNCHANGED <<cacheVars, guardVars, ptyVars, orchVars, histVars, cfgVars, lockVars>>
    \/ ConfigNext /\ UNCHANGED <<guardVars, ptyVars, histVars, fepVars, lockVars>>
    \/ LockNext /\ UNCHANGED <<cacheVars, guardVars, ptyVars, orchVars, histVars, fepVars, cfgVars>>

Spec == Init /\ [][Next]_vars

====
